---- MODULE Spec2Model ----
(***************************************************************************)
(* State-machine model of the L7 TCP load balancer of envoy-peak-ewma:     *)
(* the request/response framing, the proxy core (LoadBalancerApp) and the  *)
(* in-flight bookkeeping of the Least-Request and Peak-EWMA selectors.     *)
(***************************************************************************)
EXTENDS Integers, Sequences, FiniteSets, TLC

(***************************************************************************)
(* Bounds of the model.                                                    *)
(***************************************************************************)
NumClients == 2
NumAddrs == 2
MaxBackendSockets == 3
MaxSeq == 2
MaxTime == 1
MaxEvents == 7
MaxFrameMsgs == 2
MaxFramePayload == 1

(***************************************************************************)
(* Framing: RequestResponseHeader.  32-bit quantities are kept as a pair   *)
(* <<high 16 bits, low 16 bits>> so that uint32_t arithmetic keeps its     *)
(* width.                                                                  *)
(***************************************************************************)
Half == 256 * 256

\* sizeof(m_seq) + sizeof(int64_t) + sizeof(m_payloadSize) + sizeof(m_l7Identifier)
headerSize == 4 + 8 + 4 + 8

U32(n) == <<n \div Half, n % Half>>

\* uint32_t addition of a small constant: wraps modulo 2^32
AddU32(a, n) ==
    LET lo == a[2] + n
    IN  <<(a[1] + (lo \div Half)) % Half, lo % Half>>

\* size_t >= uint32_t, for a size below 2^16
SizeGeqU32(size, a) == a[1] = 0 /\ size >= a[2]

\* Buffer::Iterator::WriteHtonU32 of a pair: big-endian bytes
WriteHtonU32(a) == <<a[1] \div 256, a[1] % 256, a[2] \div 256, a[2] % 256>>

\* Buffer::Iterator::ReadNtohU32
ReadNtohU32(b) == <<b[1] * 256 + b[2], b[3] * 256 + b[4]>>

\* Buffer::Iterator::WriteHtonU64 / ReadNtohU64 of a value below 2^16
WriteHtonU64(n) == <<0, 0, 0, 0, 0, 0, n \div 256, n % 256>>

ReadNtohU64(b) == b[7] * 256 + b[8]

\* value of a uint32_t pair that is below 2^16
SmallU32(a) == a[2]

Serialize(h) ==
    WriteHtonU32(U32(h.seq)) \o WriteHtonU64(h.timestamp)
        \o WriteHtonU32(h.payloadSize) \o WriteHtonU64(h.l7Identifier)

Deserialize(b) ==
    [seq |-> SmallU32(ReadNtohU32(SubSeq(b, 1, 4))),
     timestamp |-> ReadNtohU64(SubSeq(b, 5, 12)),
     payloadSize |-> ReadNtohU32(SubSeq(b, 13, 16)),
     l7Identifier |-> ReadNtohU64(SubSeq(b, 17, 24))]

\* A framed message as its sender builds it: header, then payload bytes
Frame(h, payloadLen) == Serialize(h) \o [i \in 1..payloadLen |-> 170]

(***************************************************************************)
(* The reassembly loop of HandleClientRead and HandleBackendRead: the      *)
(* whole messages extracted from the rx buffer, the bytes left in it, and  *)
(* whether the loop keeps spinning (a message of expectedTotalSize 0 is    *)
(* extracted without consuming a byte, so the loop condition never         *)
(* changes).                                                               *)
(***************************************************************************)
RECURSIVE ReassemblyLoop(_, _)
ReassemblyLoop(currentRxBuffer, out) ==
    IF Len(currentRxBuffer) < headerSize
    THEN [msgs |-> out, rest |-> currentRxBuffer, spins |-> FALSE]
    ELSE LET expectedPayloadSize == Deserialize(SubSeq(currentRxBuffer, 1, headerSize)).payloadSize
             expectedTotalSize == AddU32(expectedPayloadSize, headerSize)
             n == SmallU32(expectedTotalSize)
         IN  IF SizeGeqU32(Len(currentRxBuffer), expectedTotalSize)
             THEN IF n = 0
                  THEN [msgs |-> Append(out, <<>>), rest |-> currentRxBuffer, spins |-> TRUE]
                  ELSE ReassemblyLoop(SubSeq(currentRxBuffer, n + 1, Len(currentRxBuffer)),
                                      Append(out, SubSeq(currentRxBuffer, 1, n)))
             ELSE [msgs |-> out, rest |-> currentRxBuffer, spins |-> FALSE]

Reassemble(buf) == ReassemblyLoop(buf, <<>>)

(***************************************************************************)
(* Identifiers.  Backend sockets and client sockets are both Ptr<Socket>   *)
(* values; they are drawn from disjoint ranges.                            *)
(***************************************************************************)
Null == 0
BSockets == 1..MaxBackendSockets
Clients == (MaxBackendSockets + 1)..(MaxBackendSockets + NumClients)
Addrs == 1..NumAddrs
Seqs == 1..MaxSeq
ReqIds == Clients \X Seqs

Erase(f, k) == [x \in DOMAIN f \ {k} |-> f[x]]
Put(f, k, v) == [x \in DOMAIN f \cup {k} |-> IF x = k THEN v ELSE f[x]]
EmptyMap == [x \in {} |-> Null]

\* the least element of a set of numbers, Null when it is empty
MinOf(S) == IF S = {} THEN Null ELSE CHOOSE x \in S : \A y \in S : x <= y

\* the time of an event that has not happened
Never == 0 - 1

RECURSIVE SetToSeq(_)
SetToSeq(S) ==
    IF S = {} THEN <<>>
    ELSE LET m == CHOOSE x \in S : \A y \in S : x <= y
         IN  <<m>> \o SetToSeq(S \ {m})

RECURSIVE SumOver(_, _)
SumOver(f, S) ==
    IF S = {} THEN 0
    ELSE LET x == CHOOSE y \in S : TRUE
         IN  f[x] + SumOver(f, S \ {x})

VARIABLES
    algo,                      \* which selector subclass the application is
    now,                       \* Simulator::Now()
    crashed,                   \* the process no longer runs: aborted, or stuck in a loop
    m_listeningSocket,         \* TRUE when non-null
    m_backends,                \* std::vector<BackendInfo>
    m_backendMetrics,          \* PeakEwmaLoadBalancer: address -> EwmaMetric (pending)
    m_clientRxBuffers,
    m_backendRxBuffers,
    m_clientBackendSockets,
    m_backendClientMap,
    m_pendingBackendRequests,
    m_requestSendTimes,
    clientSock,                \* transport state of every client socket
    backendSock,               \* transport state of every backend socket
    scheduled,                 \* read polls queued by Simulator::ScheduleNow
    sentCalls,                 \* history: NotifyRequestSent calls per address
    finCalls,                  \* history: NotifyRequestFinished calls per address
    reqNotes,                  \* history: per request, when it was written and the notifications issued for it
    latencyCalls,              \* history: RecordBackendLatency calls
    relayed,                   \* history: packets handed to each client socket
    chooseCalls,               \* history: the requests ChooseBackend was called for, in call order
    arrived,                   \* history: responses extracted from each backend rx buffer, in order
    congested,                 \* history: sockets with a partial Send and no writability callback since
    phase,                     \* application lifecycle: constructed, started, stopped
    lastOp,                    \* history: the handler that ran last, with its arguments
    events,                    \* number of handlers run so far
    frameSent,                 \* framing: payload sizes of the messages a peer writes
    frameDelivered,            \* framing: bytes of that stream read so far
    frameBuffer,               \* framing: the rx buffer of the socket
    frameOut,                  \* framing: messages the reassembly loop has emitted
    frameSpins,                \* framing: the loop no longer terminates
    sel_now,                   \* selector alone: Simulator::Now() in nanoseconds
    sel_backends,              \* selector alone: m_backends
    sel_metrics,               \* selector alone: PeakEwmaLoadBalancer::m_backendMetrics
    sel_unit,                  \* selector alone: the unit the weights are multiples of
    m_currentIndex,            \* WeightedRoundRobinLoadBalancer
    m_currentWeight,
    m_maxWeight,
    m_gcdWeight,
    sel_picks,                 \* selector alone: backends chosen since the last rebuild
    m_weightsAreEqual,         \* LeastRequestLoadBalancer
    m_activeRequestBias,
    sel_hasher,                \* selector alone: which hash function std::hash<std::string> is
    m_minRingSize,             \* RingHashLoadBalancer
    m_maxRingSize,
    m_ring,
    m_tableSize,               \* MaglevLoadBalancer
    m_tableBuilt,
    m_lookupTable,
    sel_fault,                 \* selector alone: why the process is no longer running
    main_args,                 \* main: the command line as parsed
    main_pc,                   \* main: how far the program has come
    sel_last                   \* selector alone: the last call and what it returned

vars == <<algo, now, crashed, m_listeningSocket, m_backends, m_backendMetrics,
          m_clientRxBuffers, m_backendRxBuffers, m_clientBackendSockets,
          m_backendClientMap, m_pendingBackendRequests, m_requestSendTimes,
          clientSock, backendSock, scheduled, sentCalls, finCalls, reqNotes,
          latencyCalls, relayed, chooseCalls, arrived, congested, phase, lastOp, events,
          frameSent, frameDelivered, frameBuffer, frameOut, frameSpins,
          sel_now, sel_backends, sel_metrics, sel_unit, m_currentIndex, m_currentWeight,
          m_maxWeight, m_gcdWeight, sel_picks, sel_last, m_weightsAreEqual, m_activeRequestBias,
          sel_hasher,
          m_minRingSize, m_maxRingSize, m_ring, m_tableSize, m_tableBuilt, m_lookupTable,
          sel_fault, main_args, main_pc>>

coreVars == <<algo, now, crashed, m_listeningSocket, m_backends, m_backendMetrics,
              m_clientRxBuffers, m_backendRxBuffers, m_clientBackendSockets,
              m_backendClientMap, m_pendingBackendRequests, m_requestSendTimes,
              clientSock, backendSock, scheduled, sentCalls, finCalls, reqNotes,
              latencyCalls, relayed, chooseCalls, arrived, congested, phase, lastOp, events>>

frameVars == <<frameSent, frameDelivered, frameBuffer, frameOut, frameSpins>>

ewmaVars == <<sel_metrics>>

wrrVars == <<sel_unit, m_currentIndex, m_currentWeight, m_maxWeight, m_gcdWeight, sel_picks>>

lrVars == <<m_weightsAreEqual, m_activeRequestBias>>

hashVars == <<sel_hasher, m_minRingSize, m_maxRingSize, m_ring, m_tableSize, m_tableBuilt,
              m_lookupTable, sel_fault>>

selVars == <<sel_now, sel_backends, sel_last, ewmaVars, wrrVars, lrVars, hashVars>>

mainVars == <<main_args, main_pc>>

\* The state as one record, for the helpers that the handlers call
Cur ==
    [algo |-> algo, now |-> now, crashed |-> crashed,
     m_listeningSocket |-> m_listeningSocket,
     m_backends |-> m_backends, m_backendMetrics |-> m_backendMetrics,
     m_clientRxBuffers |-> m_clientRxBuffers, m_backendRxBuffers |-> m_backendRxBuffers,
     m_clientBackendSockets |-> m_clientBackendSockets,
     m_backendClientMap |-> m_backendClientMap,
     m_pendingBackendRequests |-> m_pendingBackendRequests,
     m_requestSendTimes |-> m_requestSendTimes,
     clientSock |-> clientSock, backendSock |-> backendSock, scheduled |-> scheduled,
     sentCalls |-> sentCalls, finCalls |-> finCalls, reqNotes |-> reqNotes,
     latencyCalls |-> latencyCalls, relayed |-> relayed,
     chooseCalls |-> chooseCalls, arrived |-> arrived, congested |-> congested,
     exhausted |-> FALSE]

(***************************************************************************)
(* Selector bookkeeping: LeastRequestLoadBalancer keeps activeRequests in  *)
(* m_backends, PeakEwmaLoadBalancer keeps m_pending in its EwmaMetric.     *)
(***************************************************************************)
\* index of the first BackendInfo with this address, 0 when there is none
FindBackendInfo(backends, address) ==
    LET hits == {i \in DOMAIN backends : backends[i].address = address}
    IN  IF hits = {} THEN 0 ELSE CHOOSE i \in hits : \A j \in hits : i <= j

NotifyRequestSent(s, backendAddress, req) ==
    LET i == FindBackendInfo(s.m_backends, backendAddress)
        s1 == IF s.algo = "LeastRequest" /\ i # 0
              THEN [s EXCEPT !.m_backends[i].activeRequests = @ + 1]
              ELSE IF s.algo = "PeakEWMA" /\ backendAddress \in DOMAIN s.m_backendMetrics
              THEN [s EXCEPT !.m_backendMetrics[backendAddress].pending = @ + 1]
              ELSE s
    IN  [s1 EXCEPT !.sentCalls[backendAddress] = @ + 1, !.reqNotes[req].sent = @ + 1]

\* a decrement without the test for zero
DecrementFloor_Unguarded(n) == n - 1

\* the decrement of LeastRequestLoadBalancer::NotifyRequestFinished and of
\* EwmaMetric::DecrementPending
DecrementFloor(n) == IF n > 0 THEN n - 1 ELSE n

NotifyRequestFinished(s, backendAddress, req) ==
    LET i == FindBackendInfo(s.m_backends, backendAddress)
        s1 == IF s.algo = "LeastRequest" /\ i # 0
              THEN [s EXCEPT !.m_backends[i].activeRequests = DecrementFloor(@)]
              ELSE IF s.algo = "PeakEWMA" /\ backendAddress \in DOMAIN s.m_backendMetrics
              THEN [s EXCEPT !.m_backendMetrics[backendAddress].pending = DecrementFloor(@)]
              ELSE s
    IN  [s1 EXCEPT !.finCalls[backendAddress] = @ + 1, !.reqNotes[req].fin = @ + 1]

RecordBackendLatency(s, backendAddress, rtt, req) ==
    [s EXCEPT !.latencyCalls[req] =
        Append(@, [address |-> backendAddress, rtt |-> rtt, at |-> s.now,
                   sentAt |-> s.reqNotes[req].sentAt])]

\* a selector that answers with some address even when it has no backend
ChooseBackend_NeverFails(s) ==
    IF s.m_backends = <<>> THEN Addrs
    ELSE {s.m_backends[i].address : i \in DOMAIN s.m_backends}

\* every selector fails on an empty backend list; with the single-pick
\* fallback of the two-choice draw any backend of the list can be returned
ChooseBackend(s) ==
    IF s.m_backends = <<>> THEN {Null}
    ELSE {s.m_backends[i].address : i \in DOMAIN s.m_backends}

(***************************************************************************)
(* Transport.                                                              *)
(***************************************************************************)
NOTERROR == "ERROR_NOTERROR"
\* the errnos a failed Send leaves on a client socket (one that the read
\* handlers tolerate, one that they do not) and on a backend socket, and the
\* errno of a socket whose error callback fires
SendErrnos == {"ERROR_NOTCONN", "ERROR_MSGSIZE"}
BackendSendErrnos == {"ERROR_MSGSIZE"}
ErrorErrnos == {"ERROR_NOROUTETOHOST"}
SoftErrnos == {"ERROR_NOTERROR", "ERROR_AGAIN", "ERROR_SHUTDOWN", "ERROR_NOTCONN"}

\* Socket::GetPeerName of a backend socket: Null when it fails
GetPeerName(s, backendSocket) == s.backendSock[backendSocket].peer

\* the request a send-time entry or a response of this socket belongs to
ReqOf(s, backendSocket, seq) == <<s.backendSock[backendSocket].owner, seq>>

SeqsOf(s, backendSocket) ==
    {k[2] : k \in {x \in DOMAIN s.m_requestSendTimes : x[1] = backendSocket}}

(***************************************************************************)
(* LoadBalancerApp::CleanupBackendSocket                                   *)
(***************************************************************************)
RECURSIVE PurgeSendTimes(_, _, _, _)
PurgeSendTimes(s, backendSocket, addr, seqs) ==
    IF seqs = {} THEN s
    ELSE LET q == CHOOSE x \in seqs : \A y \in seqs : x <= y
             s1 == IF addr # Null
                   THEN NotifyRequestFinished(s, addr, ReqOf(s, backendSocket, q))
                   ELSE s
             s2 == [s1 EXCEPT !.m_requestSendTimes = Erase(@, <<backendSocket, q>>)]
         IN  PurgeSendTimes(s2, backendSocket, addr, seqs \ {q})

\* the client-side key under which the socket is mapped, Null when there is none
MappedKey(s, clientSocket, backendSocket) ==
    IF clientSocket # Null /\ clientSocket \in DOMAIN s.m_clientBackendSockets
    THEN MinOf({a \in DOMAIN s.m_clientBackendSockets[clientSocket] :
                   s.m_clientBackendSockets[clientSocket][a] = backendSocket})
    ELSE Null

\* the end of CleanupBackendSocket: Close unless only the maps are to be erased
CloseBackendSocket(s, backendSocket, mapEraseOnly) ==
    IF ~mapEraseOnly /\ s.backendSock[backendSocket].errno # "ERROR_SHUTDOWN"
    THEN [s EXCEPT !.backendSock[backendSocket].cbs = {},
                   !.backendSock[backendSocket].state = "closed"]
    ELSE s

\* rx buffer, pending record and send times of the socket
ReleaseBackendSocket(s, backendSocket, backendAddressForNotify, mapEraseOnly) ==
    CloseBackendSocket(
        PurgeSendTimes([s EXCEPT !.m_backendRxBuffers = Erase(@, backendSocket),
                                 !.m_pendingBackendRequests = Erase(@, backendSocket)],
                       backendSocket, backendAddressForNotify, SeqsOf(s, backendSocket)),
        backendSocket, mapEraseOnly)

\* the two directional map entries, then the rest with the address to notify
UnmapBackendSocket(s, backendSocket, clientSocket, key, mapEraseOnly) ==
    ReleaseBackendSocket(
        [s EXCEPT !.m_backendClientMap = Erase(@, backendSocket),
                  !.m_clientBackendSockets =
                      IF key # Null THEN [@ EXCEPT ![clientSocket] = Erase(@, key)] ELSE @],
        backendSocket,
        IF GetPeerName(s, backendSocket) # Null THEN GetPeerName(s, backendSocket)
        ELSE IF key # Null THEN key
        ELSE IF backendSocket \in DOMAIN s.m_pendingBackendRequests
        THEN s.m_pendingBackendRequests[backendSocket].targetBackendAddress
        ELSE Null,
        mapEraseOnly)

ClientOf(s, backendSocket) ==
    IF backendSocket \in DOMAIN s.m_backendClientMap
    THEN s.m_backendClientMap[backendSocket] ELSE Null

\* a cleanup that erases the backend-to-client entry and nothing else
CleanupBackendSocket_OneMapOnly(s, backendSocket, mapEraseOnly) ==
    IF backendSocket = Null THEN s
    ELSE [s EXCEPT !.m_backendClientMap = Erase(@, backendSocket)]

CleanupBackendSocket(s, backendSocket, mapEraseOnly) ==
    IF backendSocket = Null THEN s
    ELSE UnmapBackendSocket(s, backendSocket, ClientOf(s, backendSocket),
                            MappedKey(s, ClientOf(s, backendSocket), backendSocket),
                            mapEraseOnly)

(***************************************************************************)
(* LoadBalancerApp::CleanupClient                                          *)
(***************************************************************************)
RECURSIVE CleanupBackendSockets(_, _)
CleanupBackendSockets(s, socks) ==
    IF socks = <<>> THEN s
    ELSE CleanupBackendSockets(CleanupBackendSocket(s, Head(socks), FALSE), Tail(socks))

RECURSIVE SweepPending(_, _, _)
SweepPending(s, clientSocket, socks) ==
    IF socks = <<>> THEN s
    ELSE LET b == Head(socks)
         IN  IF b \in DOMAIN s.m_pendingBackendRequests
                /\ s.m_pendingBackendRequests[b].clientSocket = clientSocket
             THEN LET rec == s.m_pendingBackendRequests[b]
                      seq == Deserialize(rec.requestPacket).seq
                      s1 == NotifyRequestFinished(s, rec.targetBackendAddress,
                                                  <<clientSocket, seq>>)
                      s2 == [s1 EXCEPT !.m_pendingBackendRequests = Erase(@, b)]
                  IN  SweepPending(CleanupBackendSocket(s2, b, FALSE), clientSocket, Tail(socks))
             ELSE SweepPending(s, clientSocket, Tail(socks))

\* the sockets of the client's backend map, in the order the map is walked
BackendSocketsToCleanup(backendMap) ==
    [i \in 1..Cardinality(DOMAIN backendMap) |-> backendMap[SetToSeq(DOMAIN backendMap)[i]]]

\* the end of CleanupClient: Close unless the socket is already shut down
CloseClientSocket(s, clientSocket) ==
    IF s.clientSock[clientSocket].errno # "ERROR_SHUTDOWN"
    THEN [s EXCEPT !.clientSock[clientSocket].cbs = {},
                   !.clientSock[clientSocket].state = "closed"]
    ELSE s

\* the sweep of the pending records that still name the client
SweepClientPending(s, clientSocket) ==
    CloseClientSocket(
        SweepPending(s, clientSocket, SetToSeq(DOMAIN s.m_pendingBackendRequests)),
        clientSocket)

\* a client cleanup that forgets the backend sockets of the client's map
CleanupClient_LeavesBackends(s, clientSocket) ==
    IF clientSocket = Null THEN s
    ELSE SweepClientPending(
             [s EXCEPT !.m_clientBackendSockets = Erase(@, clientSocket),
                       !.m_clientRxBuffers = Erase(@, clientSocket)],
             clientSocket)

CleanupClient(s, clientSocket) ==
    IF clientSocket = Null THEN s
    ELSE SweepClientPending(
             IF clientSocket \in DOMAIN s.m_clientBackendSockets
             THEN [CleanupBackendSockets(
                       s, BackendSocketsToCleanup(s.m_clientBackendSockets[clientSocket]))
                      EXCEPT !.m_clientBackendSockets = Erase(@, clientSocket),
                             !.m_clientRxBuffers = Erase(@, clientSocket)]
             ELSE [s EXCEPT !.m_clientRxBuffers = Erase(@, clientSocket)],
             clientSocket)

(***************************************************************************)
(* LoadBalancerApp::SendToClient and SendToBackend.  Socket::Send either   *)
(* queues the whole packet, queues it with less than its size reported,    *)
(* or fails and sets the socket's errno; the result is the set of states   *)
(* the call can leave.                                                     *)
(***************************************************************************)
RECURSIVE DisableBackendReads(_, _)
DisableBackendReads(s, socks) ==
    IF socks = {} THEN s
    ELSE LET b == CHOOSE x \in socks : TRUE
             s1 == IF s.backendSock[b].errno = NOTERROR
                   THEN [s EXCEPT !.backendSock[b].cbs = @ \ {"recv"}]
                   ELSE s
         IN  DisableBackendReads(s1, socks \ {b})

BackendSocketsOf(s, clientSocket) ==
    IF clientSocket \in DOMAIN s.m_clientBackendSockets
    THEN {s.m_clientBackendSockets[clientSocket][a] :
             a \in DOMAIN s.m_clientBackendSockets[clientSocket]}
    ELSE {}

\* a relay that hands the packet to the first registered client
SendToClient_FirstClient(s, clientSocket, responsePacket) ==
    IF clientSocket = Null \/ s.clientSock[clientSocket].errno # NOTERROR
    THEN {s}
    ELSE {[s EXCEPT !.relayed[MinOf(DOMAIN s.m_clientRxBuffers)] = Append(@, responsePacket)]}

SendToClient(s, clientSocket, responsePacket) ==
    IF clientSocket = Null \/ s.clientSock[clientSocket].errno # NOTERROR
    THEN {s}
    ELSE LET queued == [s EXCEPT !.relayed[clientSocket] = Append(@, responsePacket)]
             partial == [queued EXCEPT !.congested = @ \cup {clientSocket}]
         IN  {queued}
             \cup {DisableBackendReads(partial, BackendSocketsOf(partial, clientSocket))}
             \cup {[s EXCEPT !.clientSock[clientSocket].errno = e] : e \in SendErrnos}

SendToBackend(s, backendSocket, requestPacket, req) ==
    LET peer == GetPeerName(s, backendSocket)
        targetBackendAddress ==
            IF peer # Null THEN peer
            ELSE IF backendSocket \in DOMAIN s.m_pendingBackendRequests
                 THEN s.m_pendingBackendRequests[backendSocket].targetBackendAddress
                 ELSE Null
        notified == IF targetBackendAddress # Null
                    THEN NotifyRequestFinished(s, targetBackendAddress, req)
                    ELSE s
    IN  IF s.backendSock[backendSocket].errno # NOTERROR
        THEN {CleanupBackendSocket(notified, backendSocket, FALSE)}
        ELSE LET queued == [s EXCEPT !.backendSock[backendSocket].inbox = Append(@, requestPacket),
                                     !.reqNotes[req].sentAt = s.now]
                 clientSocket == IF backendSocket \in DOMAIN s.m_backendClientMap
                                 THEN s.m_backendClientMap[backendSocket] ELSE Null
                 partial == [queued EXCEPT !.congested = @ \cup {backendSocket}]
                 pushback == IF clientSocket # Null /\ s.clientSock[clientSocket].errno = NOTERROR
                             THEN [partial EXCEPT !.clientSock[clientSocket].cbs = @ \ {"recv"}]
                             ELSE partial
             IN  {queued, pushback}
                 \cup {[notified EXCEPT !.backendSock[backendSocket].errno = e] :
                          e \in BackendSendErrnos}

(***************************************************************************)
(* LoadBalancerApp::AttemptForwardRequest                                  *)
(***************************************************************************)
FreeSockets(s) == {b \in BSockets : s.backendSock[b].state = "free"}

\* the else branch: a new backend socket and a pending record
NewConnection(s, clientSocket, requestPacket, chosenBackendAddress, req) ==
    IF FreeSockets(s) = {} THEN [s EXCEPT !.exhausted = TRUE]
    ELSE
    LET newBackendSocket == CHOOSE b \in FreeSockets(s) : \A b2 \in FreeSockets(s) : b <= b2
        s1 == NotifyRequestSent(s, chosenBackendAddress, req)
    IN  [s1 EXCEPT
            !.m_pendingBackendRequests =
                Put(@, newBackendSocket,
                    [clientSocket |-> clientSocket, requestPacket |-> requestPacket,
                     targetBackendAddress |-> chosenBackendAddress]),
            !.m_backendClientMap = Put(@, newBackendSocket, clientSocket),
            !.m_clientBackendSockets[clientSocket] =
                Put(@, chosenBackendAddress, newBackendSocket),
            !.backendSock[newBackendSocket] =
                [state |-> "connecting", errno |-> NOTERROR, peer |-> chosenBackendAddress,
                 cbs |-> {"connect", "close"}, inbox |-> <<>>, tail |-> <<>>,
                 owner |-> clientSocket]]

\* the stale-socket branch after CleanupBackendSocket(backendSocketToUse, true)
\* has led from s to s1: backendMap.erase(backend_sock_it), then a new socket
ReplaceStale(s, s1, clientSocket, requestPacket, chosenBackendAddress, req) ==
    IF chosenBackendAddress \in DOMAIN s1.m_clientBackendSockets[clientSocket]
    THEN {NewConnection([s1 EXCEPT !.m_clientBackendSockets[clientSocket] =
                                       Erase(@, chosenBackendAddress)],
                        clientSocket, requestPacket, chosenBackendAddress, req)}
    ELSE \* the iterator was erased by CleanupBackendSocket already: undefined
         \* behaviour; the double erase aborts the process, or goes unnoticed
         {[s EXCEPT !.crashed = TRUE],
          NewConnection(s1, clientSocket, requestPacket, chosenBackendAddress, req)}

ForwardTo(s, clientSocket, requestPacket, chosenBackendAddress) ==
    LET req == <<clientSocket, Deserialize(requestPacket).seq>>
    IN
    IF chosenBackendAddress = Null THEN {s}
    ELSE IF clientSocket \notin DOMAIN s.m_clientBackendSockets THEN {s}
    ELSE
    LET backendMap == s.m_clientBackendSockets[clientSocket]
        found == chosenBackendAddress \in DOMAIN backendMap
        backendSocketToUse == IF found THEN backendMap[chosenBackendAddress] ELSE Null
        reuseConnection == found /\ s.backendSock[backendSocketToUse].errno = NOTERROR
    IN  IF reuseConnection
        THEN LET s1 == NotifyRequestSent(s, chosenBackendAddress, req)
                 s2 == [s1 EXCEPT !.m_requestSendTimes =
                                      Put(@, <<backendSocketToUse, req[2]>>, s.now)]
             IN  SendToBackend(s2, backendSocketToUse, requestPacket, req)
        ELSE IF found
        THEN ReplaceStale(s, CleanupBackendSocket(s, backendSocketToUse, TRUE),
                          clientSocket, requestPacket, chosenBackendAddress, req)
        ELSE {NewConnection(s, clientSocket, requestPacket, chosenBackendAddress, req)}

AttemptForwardRequest(s, clientSocket, requestPacket) ==
    IF s.crashed THEN {s}
    ELSE UNION {ForwardTo([s EXCEPT !.chooseCalls =
                               Append(@, <<clientSocket, Deserialize(requestPacket).seq>>)],
                          clientSocket, requestPacket, chosen) : chosen \in ChooseBackend(s)}

(***************************************************************************)
(* LoadBalancerApp::HandleClientRead                                       *)
(***************************************************************************)
RECURSIVE ForwardAll(_, _, _)
ForwardAll(S, clientSocket, msgs) ==
    IF msgs = <<>> THEN S
    ELSE ForwardAll(UNION {AttemptForwardRequest(s, clientSocket, Head(msgs)) : s \in S},
                    clientSocket, Tail(msgs))

\* delivered: the bytes the Recv loop returns; eof: it ends with an empty packet
ClientRead(s, clientSocket, delivered, eof) ==
    IF clientSocket \notin DOMAIN s.m_clientRxBuffers THEN {s}
    ELSE
    LET currentRxBuffer == s.m_clientRxBuffers[clientSocket] \o delivered
        r == Reassemble(currentRxBuffer)
        s1 == [s EXCEPT !.m_clientRxBuffers[clientSocket] = currentRxBuffer]
        s2 == [s EXCEPT !.m_clientRxBuffers[clientSocket] = r.rest]
    IN  IF eof THEN {s1}
        ELSE IF r.spins THEN {[s EXCEPT !.crashed = TRUE]}
        ELSE {IF t.crashed \/ t.clientSock[clientSocket].errno \in SoftErrnos
              THEN t ELSE CleanupClient(t, clientSocket) :
                 t \in ForwardAll({s2}, clientSocket, r.msgs)}

(***************************************************************************)
(* LoadBalancerApp::HandleBackendConnectSuccess / HandleBackendConnectFail *)
(***************************************************************************)
\* a connect handler that forwards the stored request with its l7 identifier cleared
BackendConnectSuccess_RewritesHeader(s, backendSocket) ==
    IF backendSocket \notin DOMAIN s.m_pendingBackendRequests
    THEN {CleanupBackendSocket(s, backendSocket, FALSE)}
    ELSE
    LET pendingInfo == s.m_pendingBackendRequests[backendSocket]
        clientSocket == pendingInfo.clientSocket
        currentSeq == Deserialize(pendingInfo.requestPacket).seq
        req == <<clientSocket, currentSeq>>
        s1 == [s EXCEPT !.m_pendingBackendRequests = Erase(@, backendSocket)]
    IN  IF s1.clientSock[clientSocket].errno # NOTERROR
        THEN {CleanupBackendSocket(
                 NotifyRequestFinished(s1, pendingInfo.targetBackendAddress, req),
                 backendSocket, FALSE)}
        ELSE LET s2 == [s1 EXCEPT
                           !.m_backendRxBuffers =
                               IF backendSocket \in DOMAIN @ THEN @ ELSE Put(@, backendSocket, <<>>),
                           !.backendSock[backendSocket].cbs = @ \cup {"recv", "send"},
                           !.m_requestSendTimes = Put(@, <<backendSocket, currentSeq>>, s.now)]
             IN  SendToBackend(s2, backendSocket,
                               Frame([Deserialize(pendingInfo.requestPacket)
                                         EXCEPT !.l7Identifier = 0], 1),
                               req)

\* a connect success that sends the request and keeps the pending record
BackendConnectSuccess_KeepsPending(s, backendSocket) ==
    IF backendSocket \notin DOMAIN s.m_pendingBackendRequests
    THEN {CleanupBackendSocket(s, backendSocket, FALSE)}
    ELSE LET pendingInfo == s.m_pendingBackendRequests[backendSocket]
             currentSeq == Deserialize(pendingInfo.requestPacket).seq
         IN  SendToBackend(
                 [s EXCEPT !.m_backendRxBuffers =
                               IF backendSocket \in DOMAIN @ THEN @
                               ELSE Put(@, backendSocket, <<>>),
                           !.backendSock[backendSocket].cbs = @ \cup {"recv", "send"},
                           !.m_requestSendTimes = Put(@, <<backendSocket, currentSeq>>, s.now)],
                 backendSocket, pendingInfo.requestPacket,
                 <<pendingInfo.clientSocket, currentSeq>>)

BackendConnectSuccess(s, backendSocket) ==
    IF backendSocket \notin DOMAIN s.m_pendingBackendRequests
    THEN {CleanupBackendSocket(s, backendSocket, FALSE)}
    ELSE
    LET pendingInfo == s.m_pendingBackendRequests[backendSocket]
        clientSocket == pendingInfo.clientSocket
        currentSeq == Deserialize(pendingInfo.requestPacket).seq
        req == <<clientSocket, currentSeq>>
        s1 == [s EXCEPT !.m_pendingBackendRequests = Erase(@, backendSocket)]
    IN  IF s1.clientSock[clientSocket].errno # NOTERROR
        THEN {CleanupBackendSocket(
                 NotifyRequestFinished(s1, pendingInfo.targetBackendAddress, req),
                 backendSocket, FALSE)}
        ELSE LET s2 == [s1 EXCEPT
                           !.m_backendRxBuffers =
                               IF backendSocket \in DOMAIN @ THEN @ ELSE Put(@, backendSocket, <<>>),
                           !.backendSock[backendSocket].cbs = @ \cup {"recv", "send"},
                           !.m_requestSendTimes = Put(@, <<backendSocket, currentSeq>>, s.now)]
             IN  SendToBackend(s2, backendSocket, pendingInfo.requestPacket, req)

\* a connect failure that drops the pending record without notifying
BackendConnectFail_SkipsNotify(s, backendSocket) ==
    CleanupBackendSocket(s, backendSocket, FALSE)

BackendConnectFail(s, backendSocket) ==
    IF backendSocket \in DOMAIN s.m_pendingBackendRequests
    THEN LET rec == s.m_pendingBackendRequests[backendSocket]
             req == <<rec.clientSocket, Deserialize(rec.requestPacket).seq>>
             s1 == NotifyRequestFinished(s, rec.targetBackendAddress, req)
             s2 == [s1 EXCEPT !.m_pendingBackendRequests = Erase(@, backendSocket)]
         IN  CleanupBackendSocket(s2, backendSocket, FALSE)
    ELSE CleanupBackendSocket(s, backendSocket, FALSE)

(***************************************************************************)
(* LoadBalancerApp::HandleBackendRead                                      *)
(***************************************************************************)
\* a latency measured from the timestamp the client wrote into the header
ProcessResponse_ClientTimestamp(s, backendSocket, clientSocket, packetToForwardToClient) ==
    LET currentSeq == Deserialize(packetToForwardToClient).seq
        req == ReqOf(s, backendSocket, currentSeq)
        backendInetAddr == GetPeerName(s, backendSocket)
        key == <<backendSocket, currentSeq>>
        s0 == [s EXCEPT !.reqNotes[req].responses = @ + 1,
                        !.arrived[backendSocket] = Append(@, packetToForwardToClient)]
        s1 == IF backendInetAddr # Null /\ key \in DOMAIN s0.m_requestSendTimes
              THEN [RecordBackendLatency(
                        s0, backendInetAddr,
                        s0.now - Deserialize(packetToForwardToClient).timestamp, req)
                       EXCEPT !.m_requestSendTimes = Erase(@, key)]
              ELSE s0
        s2 == IF backendInetAddr # Null
              THEN NotifyRequestFinished(s1, backendInetAddr, req)
              ELSE s1
    IN  SendToClient(s2, clientSocket, packetToForwardToClient)

ProcessResponse(s, backendSocket, clientSocket, packetToForwardToClient) ==
    LET currentSeq == Deserialize(packetToForwardToClient).seq
        req == ReqOf(s, backendSocket, currentSeq)
        backendInetAddr == GetPeerName(s, backendSocket)
        key == <<backendSocket, currentSeq>>
        s0 == [s EXCEPT !.reqNotes[req].responses = @ + 1,
                        !.arrived[backendSocket] = Append(@, packetToForwardToClient)]
        s1 == IF backendInetAddr # Null /\ key \in DOMAIN s0.m_requestSendTimes
              THEN [RecordBackendLatency(s0, backendInetAddr,
                                         s0.now - s0.m_requestSendTimes[key], req)
                       EXCEPT !.m_requestSendTimes = Erase(@, key)]
              ELSE s0
        s2 == IF backendInetAddr # Null
              THEN NotifyRequestFinished(s1, backendInetAddr, req)
              ELSE s1
    IN  SendToClient(s2, clientSocket, packetToForwardToClient)

RECURSIVE RelayAll(_, _, _, _)
RelayAll(S, backendSocket, clientSocket, msgs) ==
    IF msgs = <<>> THEN S
    ELSE RelayAll(UNION {ProcessResponse(s, backendSocket, clientSocket, Head(msgs)) : s \in S},
                  backendSocket, clientSocket, Tail(msgs))

\* the echo server's response to a request: its header with payload size 0
Response(requestPacket) ==
    Serialize([Deserialize(requestPacket) EXCEPT !.payloadSize = U32(0)])

RECURSIVE Responses(_)
Responses(requests) ==
    IF requests = <<>> THEN <<>>
    ELSE Response(Head(requests)) \o Responses(Tail(requests))

\* k: responses the server has produced since the last read; cut: bytes of
\* them still in transit; eof: the Recv loop ends with an empty packet
BackendRead(s, backendSocket, k, cut, eof) ==
    IF backendSocket \notin DOMAIN s.m_backendClientMap THEN {s}
    ELSE
    LET clientSocket == s.m_backendClientMap[backendSocket]
    IN  IF s.clientSock[clientSocket].errno # NOTERROR
        THEN {CleanupBackendSocket(s, backendSocket, FALSE)}
        ELSE IF backendSocket \notin DOMAIN s.m_backendRxBuffers
        THEN {CleanupBackendSocket(s, backendSocket, FALSE)}
        ELSE
        LET sock == s.backendSock[backendSocket]
            avail == sock.tail \o Responses(SubSeq(sock.inbox, 1, k))
            delivered == SubSeq(avail, 1, Len(avail) - cut)
            currentRxBuffer == s.m_backendRxBuffers[backendSocket] \o delivered
            r == Reassemble(currentRxBuffer)
            s1 == [s EXCEPT !.backendSock[backendSocket].inbox = SubSeq(@, k + 1, Len(@)),
                            !.backendSock[backendSocket].tail =
                                SubSeq(avail, Len(avail) - cut + 1, Len(avail)),
                            !.backendSock[backendSocket].state = IF eof THEN "eof" ELSE @]
            s2 == [s1 EXCEPT !.m_backendRxBuffers[backendSocket] = currentRxBuffer]
            s3 == [s1 EXCEPT !.m_backendRxBuffers[backendSocket] = r.rest]
        IN  IF eof THEN {s2}
            ELSE IF r.spins THEN {[s EXCEPT !.crashed = TRUE]}
            ELSE {IF t.backendSock[backendSocket].errno \in SoftErrnos
                  THEN t ELSE CleanupBackendSocket(t, backendSocket, FALSE) :
                     t \in RelayAll({s3}, backendSocket, clientSocket, r.msgs)}

(***************************************************************************)
(* LoadBalancerApp::HandleSend                                             *)
(***************************************************************************)
RECURSIVE EnableBackendReads(_, _)
EnableBackendReads(s, socks) ==
    IF socks = {} THEN s
    ELSE LET b == CHOOSE x \in socks : TRUE
             s1 == IF s.backendSock[b].errno = NOTERROR
                   THEN [s EXCEPT !.backendSock[b].cbs = @ \cup {"recv"},
                                  !.scheduled = @ \cup {b}]
                   ELSE s
         IN  EnableBackendReads(s1, socks \ {b})

\* HandleSend once the socket is noted as writable again
SendSpace(s, socket) ==
    IF socket \in DOMAIN s.m_backendClientMap
    THEN LET clientSocket == s.m_backendClientMap[socket]
         IN  IF s.clientSock[clientSocket].errno = NOTERROR
             THEN [s EXCEPT !.clientSock[clientSocket].cbs = @ \cup {"recv"},
                            !.scheduled = @ \cup {clientSocket}]
             ELSE s
    ELSE IF socket \in DOMAIN s.m_clientBackendSockets
    THEN EnableBackendReads(s, BackendSocketsOf(s, socket))
    ELSE s

Send(s, socket) == SendSpace([s EXCEPT !.congested = @ \ {socket}], socket)

(***************************************************************************)
(* LoadBalancerApp::HandleBackendClose / HandleBackendError                *)
(***************************************************************************)
BackendClose(s, backendSocket) ==
    LET backendAddress == GetPeerName(s, backendSocket)
        s1 == IF backendAddress # Null
              THEN PurgeSendTimes(s, backendSocket, backendAddress, SeqsOf(s, backendSocket))
              ELSE s
    IN  CleanupBackendSocket(s1, backendSocket, FALSE)

\* an error handler that leaves the pending request to CleanupBackendSocket
BackendError_SkipsPending(s, backendSocket) ==
    CleanupBackendSocket(
        IF GetPeerName(s, backendSocket) # Null
        THEN PurgeSendTimes(s, backendSocket, GetPeerName(s, backendSocket),
                            SeqsOf(s, backendSocket))
        ELSE s,
        backendSocket, FALSE)

BackendError(s, backendSocket) ==
    LET backendAddress == GetPeerName(s, backendSocket)
        s1 == IF backendSocket \in DOMAIN s.m_pendingBackendRequests
              THEN LET rec == s.m_pendingBackendRequests[backendSocket]
                   IN  NotifyRequestFinished(s, rec.targetBackendAddress,
                           <<rec.clientSocket, Deserialize(rec.requestPacket).seq>>)
              ELSE IF backendAddress # Null
              THEN PurgeSendTimes(s, backendSocket, backendAddress, SeqsOf(s, backendSocket))
              ELSE s
    IN  CleanupBackendSocket(s1, backendSocket, FALSE)

(***************************************************************************)
(* LoadBalancerApp::StopApplication                                        *)
(***************************************************************************)
RECURSIVE CleanupClients(_, _)
CleanupClients(s, socks) ==
    IF socks = <<>> THEN s
    ELSE CleanupClients(CleanupClient(s, Head(socks)), Tail(socks))

\* the pending records no client cleanup has reached, then the final clear()s
ClearAll(s) ==
    [CleanupBackendSockets(s, SetToSeq(DOMAIN s.m_pendingBackendRequests))
        EXCEPT !.m_pendingBackendRequests = EmptyMap,
               !.m_clientRxBuffers = EmptyMap,
               !.m_backendRxBuffers = EmptyMap,
               !.m_backendClientMap = EmptyMap,
               !.m_requestSendTimes = EmptyMap]

\* a stop that leaves the listening socket open
Stop_KeepsListening(s) ==
    ClearAll([CleanupClients(s, SetToSeq(DOMAIN s.m_clientBackendSockets))
                 EXCEPT !.m_clientBackendSockets = EmptyMap])

Stop(s) ==
    ClearAll([CleanupClients([s EXCEPT !.m_listeningSocket = FALSE],
                             SetToSeq(DOMAIN s.m_clientBackendSockets))
                 EXCEPT !.m_clientBackendSockets = EmptyMap])

(***************************************************************************)
(* LoadBalancerApp::SetBackends / AddBackend with the overrides of the     *)
(* two selectors                                                           *)
(***************************************************************************)
BackendInfo(addr, w) == [address |-> addr, weight |-> w, activeRequests |-> 0]

\* EwmaMetric(decayTime): m_pending(0)
EwmaMetric == [pending |-> 0]

SetBackendsBody(s, backends) ==
    LET s1 == [s EXCEPT !.m_backends =
                   [i \in 1..Len(backends) |-> BackendInfo(backends[i][1], backends[i][2])]]
    IN  IF s.algo = "PeakEWMA"
        THEN [s1 EXCEPT !.m_backendMetrics =
                 [a \in {backends[i][1] : i \in 1..Len(backends)} |-> EwmaMetric]]
        ELSE s1

AddBackendBody(s, backendAddress, weight) ==
    LET i == FindBackendInfo(s.m_backends, backendAddress)
        s1 == IF i = 0
              THEN [s EXCEPT !.m_backends = Append(@, BackendInfo(backendAddress, weight))]
              ELSE [s EXCEPT !.m_backends[i].weight = weight]
    IN  IF s.algo = "PeakEWMA" /\ backendAddress \notin DOMAIN s.m_backendMetrics
        THEN [s1 EXCEPT !.m_backendMetrics = Put(@, backendAddress, EwmaMetric)]
        ELSE s1

(***************************************************************************)
(* The state machine                                                       *)
(***************************************************************************)
Op(name, sock, k) == [op |-> name, sock |-> sock, k |-> k]

\* requests that have a pending record or a send-time entry on a backend socket
OnSocket(s, b) ==
    (IF b \in DOMAIN s.m_pendingBackendRequests THEN 1 ELSE 0)
        + Cardinality(SeqsOf(s, b))

\* a handler runs while the process is alive and the event budget lasts
Running == ~crashed /\ events < MaxEvents

Install(t, op) ==
    /\ ~t.exhausted
    /\ UNCHANGED <<frameVars, selVars, mainVars>>
    /\ events' = events + 1
    /\ lastOp' = op
    /\ IF t.crashed
       THEN /\ crashed' = TRUE
            /\ UNCHANGED <<algo, now, m_listeningSocket, m_backends, m_backendMetrics,
                           m_clientRxBuffers, m_backendRxBuffers, m_clientBackendSockets,
                           m_backendClientMap, m_pendingBackendRequests, m_requestSendTimes,
                           clientSock, backendSock, scheduled, sentCalls, finCalls,
                           reqNotes, latencyCalls, relayed, chooseCalls, arrived,
                           congested>>
       ELSE /\ crashed' = FALSE
            /\ algo' = t.algo
            /\ now' = t.now
            /\ m_listeningSocket' = t.m_listeningSocket
            /\ m_backends' = t.m_backends
            /\ m_backendMetrics' = t.m_backendMetrics
            /\ m_clientRxBuffers' = t.m_clientRxBuffers
            /\ m_backendRxBuffers' = t.m_backendRxBuffers
            /\ m_clientBackendSockets' = t.m_clientBackendSockets
            /\ m_backendClientMap' = t.m_backendClientMap
            /\ m_pendingBackendRequests' = t.m_pendingBackendRequests
            /\ m_requestSendTimes' = t.m_requestSendTimes
            /\ clientSock' = t.clientSock
            /\ backendSock' = t.backendSock
            /\ scheduled' = t.scheduled
            /\ sentCalls' = t.sentCalls
            /\ finCalls' = t.finCalls
            /\ reqNotes' = t.reqNotes
            /\ latencyCalls' = t.latencyCalls
            /\ relayed' = t.relayed
            /\ chooseCalls' = t.chooseCalls
            /\ arrived' = t.arrived
            /\ congested' = t.congested

CoreInit ==
    /\ algo \in {"LeastRequest", "PeakEWMA"}
    /\ now = 0
    /\ crashed = FALSE
    /\ m_listeningSocket = FALSE
    /\ m_backends = <<>>
    /\ m_backendMetrics = EmptyMap
    /\ m_clientRxBuffers = EmptyMap
    /\ m_backendRxBuffers = EmptyMap
    /\ m_clientBackendSockets = EmptyMap
    /\ m_backendClientMap = EmptyMap
    /\ m_pendingBackendRequests = EmptyMap
    /\ m_requestSendTimes = EmptyMap
    /\ clientSock = [c \in Clients |->
                       [state |-> "none", errno |-> NOTERROR, cbs |-> {},
                        next |-> 1, tail |-> <<>>]]
    /\ backendSock = [b \in BSockets |->
                        [state |-> "free", errno |-> NOTERROR, peer |-> Null, cbs |-> {},
                         inbox |-> <<>>, tail |-> <<>>, owner |-> Null]]
    /\ scheduled = {}
    /\ sentCalls = [a \in Addrs |-> 0]
    /\ finCalls = [a \in Addrs |-> 0]
    /\ reqNotes = [r \in ReqIds |-> [sent |-> 0, fin |-> 0, sentAt |-> Never, responses |-> 0,
                                    stamp |-> Never]]
    /\ latencyCalls = [r \in ReqIds |-> <<>>]
    /\ relayed = [c \in Clients |-> <<>>]
    /\ chooseCalls = <<>>
    /\ arrived = [b \in BSockets |-> <<>>]
    /\ congested = {}
    /\ phase = "constructed"
    /\ lastOp = Op("Init", Null, 0)
    /\ events = 0

FrameIdle ==
    /\ frameSent = <<>>
    /\ frameDelivered = 0
    /\ frameBuffer = <<>>
    /\ frameOut = <<>>
    /\ frameSpins = FALSE

\* no selector is exercised on its own
SelConstructed ==
    /\ sel_now = 0
    /\ sel_backends = <<>>
    /\ sel_metrics = EmptyMap
    /\ m_currentIndex = 0
    /\ m_currentWeight = 0
    /\ m_maxWeight = 0
    /\ m_gcdWeight = 0
    /\ sel_picks = <<>>
    /\ sel_last = [op |-> "Init"]
    /\ m_weightsAreEqual = TRUE
    /\ m_activeRequestBias = 1
    /\ m_ring = EmptyMap
    /\ m_tableBuilt = FALSE
    /\ m_lookupTable = <<>>
    /\ sel_fault = "none"

\* the attributes and the hash function of a selector that is not exercised
HashIdle == sel_hasher = 1 /\ m_minRingSize = 1 /\ m_maxRingSize = 1 /\ m_tableSize = 1

\* no program around the application or the selector
MainIdle == main_args = [lbAlgorithm |-> "none"] /\ main_pc = "none"

SelIdle == SelConstructed /\ sel_unit = 1 /\ HashIdle /\ MainIdle

Init == CoreInit /\ FrameIdle /\ SelIdle

StartApplication ==
    /\ Running /\ phase = "constructed"
    /\ phase' = "started"
    /\ Install([Cur EXCEPT !.m_listeningSocket = TRUE], Op("StartApplication", Null, 0))

StopApplication ==
    /\ Running /\ phase = "started"
    /\ phase' = "stopped"
    /\ Install(Stop(Cur), Op("StopApplication", Null,
                             Cardinality(DOMAIN m_pendingBackendRequests)
                                 + Cardinality(DOMAIN m_requestSendTimes)))

SetBackends(backends) ==
    /\ Running
    /\ UNCHANGED phase
    /\ Install(SetBackendsBody(Cur, backends), Op("SetBackends", Null, 0))

AddBackend(backendAddress) ==
    /\ Running
    /\ UNCHANGED phase
    /\ Install(AddBackendBody(Cur, backendAddress, 1), Op("AddBackend", backendAddress, 0))

\* time is observed through the send times only: it advances while a request
\* is pending or in flight
Tick ==
    /\ Running /\ now < MaxTime
    /\ (DOMAIN m_pendingBackendRequests # {} \/ DOMAIN m_requestSendTimes # {})
    /\ UNCHANGED phase
    /\ Install([Cur EXCEPT !.now = @ + 1], Op("Tick", Null, 0))

\* clients connect in the order of their socket identifiers
HandleAccept(acceptedSocket) ==
    /\ Running /\ m_listeningSocket
    /\ clientSock[acceptedSocket].state = "none"
    /\ \A c \in Clients : c < acceptedSocket => clientSock[c].state # "none"
    /\ UNCHANGED phase
    /\ Install([Cur EXCEPT
                   !.clientSock[acceptedSocket].state = "open",
                   !.clientSock[acceptedSocket].cbs = {"recv", "send", "close"},
                   !.m_clientRxBuffers =
                       IF acceptedSocket \in DOMAIN @ THEN @ ELSE Put(@, acceptedSocket, <<>>),
                   !.m_clientBackendSockets =
                       IF acceptedSocket \in DOMAIN @ THEN @ ELSE Put(@, acceptedSocket, EmptyMap)],
               Op("HandleAccept", acceptedSocket, 0))

\* the requests a client writes: seq from..from+n-1, stamped with the time of writing
RECURSIVE NewFrames(_, _, _)
NewFrames(from, n, t) ==
    IF n = 0 THEN <<>>
    ELSE Frame([seq |-> from, timestamp |-> t, payloadSize |-> U32(1), l7Identifier |-> from], 1)
            \o NewFrames(from + 1, n - 1, t)

\* the time of writing, noted for each of these requests
RECURSIVE StampFrames(_, _, _, _, _)
StampFrames(notes, c, from, n, t) ==
    IF n = 0 THEN notes
    ELSE StampFrames([notes EXCEPT ![<<c, from>>].stamp = t], c, from + 1, n - 1, t)

\* a read delivers everything in transit, or all but the last half header
Cuts(avail) == {0} \cup (IF Len(avail) > headerSize \div 2 THEN {headerSize \div 2} ELSE {})

HandleClientRead(clientSocket, viaPoll, n, cut, eof) ==
    LET sock == clientSock[clientSocket]
        live == sock.state = "open" /\ clientSocket \in DOMAIN m_clientRxBuffers
        avail == sock.tail \o NewFrames(sock.next, n, now)
        delivered == SubSeq(avail, 1, Len(avail) - cut)
        s0 == [Cur EXCEPT !.reqNotes = StampFrames(@, clientSocket, sock.next, n, now),
                          !.clientSock[clientSocket].next = @ + n,
                          !.clientSock[clientSocket].tail =
                              SubSeq(avail, Len(avail) - cut + 1, Len(avail)),
                          !.clientSock[clientSocket].state = IF eof THEN "eof" ELSE @,
                          !.scheduled = IF viaPoll THEN @ \ {clientSocket} ELSE @]
    IN  /\ Running
        /\ IF viaPoll THEN clientSocket \in scheduled
           ELSE live /\ "recv" \in sock.cbs /\ (Len(delivered) > 0 \/ eof)
        /\ IF live THEN sock.next + n - 1 <= MaxSeq /\ cut \in Cuts(avail) /\ (eof => n = 0)
           ELSE n = 0 /\ cut = 0 /\ ~eof
        /\ UNCHANGED phase
        /\ \E t \in ClientRead(s0, clientSocket, delivered, eof) :
               Install(t, Op("HandleClientRead", clientSocket, n))

HandleClientClose(clientSocket) ==
    /\ Running
    /\ clientSock[clientSocket].state \in {"open", "eof"}
    /\ "close" \in clientSock[clientSocket].cbs
    /\ UNCHANGED phase
    /\ Install(CleanupClient([Cur EXCEPT !.clientSock[clientSocket].state = "closed"],
                             clientSocket),
               Op("HandleClientClose", clientSocket,
                  Cardinality({k \in DOMAIN m_requestSendTimes :
                                  k[1] \in BackendSocketsOf(Cur, clientSocket)})))

HandleClientError(clientSocket, e) ==
    /\ Running
    /\ clientSock[clientSocket].state \in {"open", "eof"}
    /\ "close" \in clientSock[clientSocket].cbs
    /\ UNCHANGED phase
    /\ Install(CleanupClient([Cur EXCEPT !.clientSock[clientSocket].state = "closed",
                                         !.clientSock[clientSocket].errno = e],
                             clientSocket),
               Op("HandleClientError", clientSocket,
                  Cardinality({k \in DOMAIN m_requestSendTimes :
                                  k[1] \in BackendSocketsOf(Cur, clientSocket)})))

HandleBackendConnectSuccess(backendSocket) ==
    /\ Running
    /\ backendSock[backendSocket].state = "connecting"
    /\ "connect" \in backendSock[backendSocket].cbs
    /\ UNCHANGED phase
    /\ \E t \in BackendConnectSuccess(
                   [Cur EXCEPT !.backendSock[backendSocket].state = "connected"],
                   backendSocket) :
           Install(t, Op("HandleBackendConnectSuccess", backendSocket,
                         OnSocket(Cur, backendSocket)))

HandleBackendConnectFail(backendSocket, e) ==
    /\ Running
    /\ backendSock[backendSocket].state = "connecting"
    /\ "connect" \in backendSock[backendSocket].cbs
    /\ UNCHANGED phase
    /\ Install(BackendConnectFail(
                   [Cur EXCEPT !.backendSock[backendSocket].state = "closed",
                               !.backendSock[backendSocket].errno = e],
                   backendSocket),
               Op("HandleBackendConnectFail", backendSocket, OnSocket(Cur, backendSocket)))

HandleBackendRead(backendSocket, viaPoll, k, cut, eof) ==
    LET sock == backendSock[backendSocket]
        live == /\ sock.state = "connected"
                /\ backendSocket \in DOMAIN m_backendClientMap
                /\ backendSocket \in DOMAIN m_backendRxBuffers
                /\ clientSock[m_backendClientMap[backendSocket]].errno = NOTERROR
        avail == sock.tail \o Responses(SubSeq(sock.inbox, 1, k))
        s0 == [Cur EXCEPT !.scheduled = IF viaPoll THEN @ \ {backendSocket} ELSE @]
    IN  /\ Running
        /\ k <= Len(sock.inbox)
        /\ IF viaPoll THEN backendSocket \in scheduled
           ELSE /\ sock.state = "connected" /\ "recv" \in sock.cbs
                /\ (Len(avail) - cut > 0 \/ eof)
        /\ IF live THEN cut \in Cuts(avail) /\ (eof => k = 0)
           ELSE IF viaPoll THEN k = 0 /\ cut = 0 /\ ~eof
           ELSE cut = 0 /\ ~eof
        /\ UNCHANGED phase
        /\ \E t \in BackendRead(s0, backendSocket, k, cut, eof) :
               Install(t, Op("HandleBackendRead", backendSocket, k))

HandleSend(socket) ==
    /\ Running
    /\ IF socket \in Clients
       THEN clientSock[socket].state \in {"open", "eof"} /\ "send" \in clientSock[socket].cbs
       ELSE backendSock[socket].state = "connected" /\ "send" \in backendSock[socket].cbs
    /\ UNCHANGED phase
    /\ Install(Send(Cur, socket), Op("HandleSend", socket, 0))

\* addrKnown: whether the transport still resolves the peer of the closed socket
HandleBackendClose(backendSocket, addrKnown) ==
    /\ Running
    /\ backendSock[backendSocket].state \in {"connected", "eof"}
    /\ "close" \in backendSock[backendSocket].cbs
    /\ UNCHANGED phase
    /\ Install(BackendClose(
                   [Cur EXCEPT !.backendSock[backendSocket].state = "closed",
                               !.backendSock[backendSocket].peer =
                                   IF addrKnown THEN @ ELSE Null],
                   backendSocket),
               Op("HandleBackendClose", backendSocket, OnSocket(Cur, backendSocket)))

HandleBackendError(backendSocket, addrKnown, e) ==
    /\ Running
    /\ backendSock[backendSocket].state \in {"connecting", "connected", "eof"}
    /\ "close" \in backendSock[backendSocket].cbs
    /\ UNCHANGED phase
    /\ Install(BackendError(
                   [Cur EXCEPT !.backendSock[backendSocket].state = "closed",
                               !.backendSock[backendSocket].errno = e,
                               !.backendSock[backendSocket].peer =
                                   IF addrKnown THEN @ ELSE Null],
                   backendSocket),
               Op("HandleBackendError", backendSocket, OnSocket(Cur, backendSocket)))

\* the lists handed to SetBackends: none, or every address with weight 1
BackendLists == {<<>>, [i \in 1..NumAddrs |-> <<i, 1>>]}

Next ==
    \/ StartApplication
    \/ StopApplication
    \/ \E backends \in BackendLists : SetBackends(backends)
    \/ \E a \in Addrs : AddBackend(a)
    \/ Tick
    \/ \E c \in Clients : HandleAccept(c)
    \/ \E c \in Clients, viaPoll, eof \in BOOLEAN, n \in 0..MaxSeq, cut \in {0, headerSize \div 2} :
           HandleClientRead(c, viaPoll, n, cut, eof)
    \/ \E c \in Clients : HandleClientClose(c)
    \/ \E c \in Clients, e \in ErrorErrnos : HandleClientError(c, e)
    \/ \E b \in BSockets : HandleBackendConnectSuccess(b)
    \/ \E b \in BSockets, e \in ErrorErrnos : HandleBackendConnectFail(b, e)
    \/ \E b \in BSockets, viaPoll, eof \in BOOLEAN, k \in 0..MaxSeq, cut \in {0, headerSize \div 2} :
           HandleBackendRead(b, viaPoll, k, cut, eof)
    \/ \E sock \in Clients \cup BSockets : HandleSend(sock)
    \/ \E b \in BSockets, addrKnown \in BOOLEAN : HandleBackendClose(b, addrKnown)
    \/ \E b \in BSockets, addrKnown \in BOOLEAN, e \in ErrorErrnos :
           HandleBackendError(b, addrKnown, e)

Spec == Init /\ [][Next]_vars

(***************************************************************************)
(* The reassembly loop on its own: a peer writes framed messages, the      *)
(* socket hands their bytes over in chunks of any size, and every read     *)
(* runs the loop of HandleClientRead / HandleBackendRead on the rx buffer. *)
(***************************************************************************)
\* payload_size values a header can carry: small ones, and the two largest
\* for which headerSize + payload_size no longer fits 32 bits
PayloadSizes ==
    {U32(n) : n \in 0..MaxFramePayload}
        \cup {<<Half - 1, Half - headerSize>>, <<Half - 1, Half - headerSize + 1>>}

FrameHeader(i, payloadSize) ==
    [seq |-> i, timestamp |-> 0, payloadSize |-> payloadSize, l7Identifier |-> i]

\* byte i of the stream made of the messages numbered from `first`
RECURSIVE StreamByte(_, _, _)
StreamByte(sizes, first, i) ==
    IF i <= headerSize THEN Serialize(FrameHeader(first, Head(sizes)))[i]
    ELSE IF Head(sizes)[1] > 0 \/ i - headerSize <= Head(sizes)[2] THEN 170
    ELSE StreamByte(Tail(sizes), first + 1, i - headerSize - Head(sizes)[2])

\* whether the stream has at least n bytes
RECURSIVE StreamHas(_, _)
StreamHas(sizes, n) ==
    IF n <= 0 THEN TRUE
    ELSE IF sizes = <<>> THEN FALSE
    ELSE IF Head(sizes)[1] > 0 THEN TRUE
    ELSE StreamHas(Tail(sizes), n - headerSize - Head(sizes)[2])

\* the most bytes the reads of one run deliver
MaxDelivered == MaxFrameMsgs * (headerSize + MaxFramePayload)

FrameInit ==
    /\ CoreInit
    /\ SelIdle
    /\ frameSent \in UNION {[1..n -> PayloadSizes] : n \in 1..MaxFrameMsgs}
    /\ frameDelivered = 0
    /\ frameBuffer = <<>>
    /\ frameOut = <<>>
    /\ frameSpins = FALSE

\* one read of n more bytes, then the loop
FrameRecv(n) ==
    /\ ~frameSpins
    /\ frameDelivered + n <= MaxDelivered
    /\ StreamHas(frameSent, frameDelivered + n)
    /\ \E r \in {Reassemble(frameBuffer \o
                       [i \in 1..n |-> StreamByte(frameSent, 1, frameDelivered + i)])} :
           /\ frameOut' = frameOut \o r.msgs
           /\ frameBuffer' = r.rest
           /\ frameSpins' = r.spins
    /\ frameDelivered' = frameDelivered + n
    /\ UNCHANGED <<frameSent, coreVars, selVars, mainVars>>

FrameNext == \E n \in 1..MaxDelivered : FrameRecv(n)

FrameSpec == FrameInit /\ [][FrameNext]_vars

(***************************************************************************)
(* Properties                                                              *)
(***************************************************************************)
\* the in-flight count the selector in use keeps for an address
InFlightCount(backends, metrics, a) ==
    IF algo = "LeastRequest"
    THEN IF FindBackendInfo(backends, a) = 0 THEN 0
         ELSE backends[FindBackendInfo(backends, a)].activeRequests
    ELSE IF a \in DOMAIN metrics THEN metrics[a].pending ELSE 0

RECURSIVE SumActiveRequests(_)
SumActiveRequests(backends) ==
    IF backends = <<>> THEN 0
    ELSE Head(backends).activeRequests + SumActiveRequests(Tail(backends))

\* requests sent to a backend and not yet finished
Unfinished == {r \in ReqIds : reqNotes[r].sent > reqNotes[r].fin}

\* C1: every NotifyRequestSent is matched by at most one NotifyRequestFinished:
\* no request is finished more often than it was sent, and for no address do
\* the NotifyRequestFinished calls outnumber the NotifyRequestSent calls.
C1_SentMatchedOnce ==
    /\ \A r \in ReqIds : reqNotes[r].fin <= reqNotes[r].sent
    /\ \A a \in Addrs : finCalls[a] <= sentCalls[a]

\* C2: once StopApplication has completed, as many NotifyRequestFinished as
\* NotifyRequestSent calls have been made and the active_requests of all
\* backends sum to 0.
C2_BalancedAfterStop ==
    lastOp.op = "StopApplication" =>
        /\ SumOver(sentCalls, Addrs) = SumOver(finCalls, Addrs)
        /\ SumActiveRequests(m_backends) = 0

\* C3: with the Least-Request selector, in every reachable state the
\* active_requests of the backend registry sum to the number of requests sent
\* to a backend and not yet finished.
C3_ActiveEqualsInFlight ==
    algo = "LeastRequest" => SumActiveRequests(m_backends) = Cardinality(Unfinished)

\* the messages of the stream that lie wholly within its first `delivered` bytes
RECURSIVE WholeMessages(_, _, _)
WholeMessages(sizes, first, delivered) ==
    IF sizes = <<>> \/ Head(sizes)[1] > 0 \/ delivered < headerSize + Head(sizes)[2]
    THEN <<>>
    ELSE <<Frame(FrameHeader(first, Head(sizes)), Head(sizes)[2])>>
            \o WholeMessages(Tail(sizes), first + 1, delivered - headerSize - Head(sizes)[2])

RECURSIVE TotalLen(_)
TotalLen(msgs) == IF msgs = <<>> THEN 0 ELSE Len(Head(msgs)) + TotalLen(Tail(msgs))

\* C4: whatever the chunks, the reassembly loop has emitted exactly the
\* messages that have wholly arrived, each once and in wire order, it
\* terminates, and the rx buffer holds exactly the bytes that arrived after
\* the last whole message.
C4_ReassemblyExact ==
    /\ ~frameSpins
    /\ frameOut = WholeMessages(frameSent, 1, frameDelivered)
    /\ frameBuffer =
           [i \in 1..(frameDelivered - TotalLen(WholeMessages(frameSent, 1, frameDelivered))) |->
               StreamByte(frameSent, 1,
                          TotalLen(WholeMessages(frameSent, 1, frameDelivered)) + i)]

\* C4 for payload sizes whose sum with the header size fits 32 bits
C4_SmallPayloads ==
    (\A i \in DOMAIN frameSent : frameSent[i][1] = 0) => C4_ReassemblyExact

\* the requests with a pending record or a send-time entry on backend socket b
RequestsOn(b) ==
    {r \in ReqIds :
        \/ /\ b \in DOMAIN m_pendingBackendRequests
           /\ r = <<m_pendingBackendRequests[b].clientSocket,
                    Deserialize(m_pendingBackendRequests[b].requestPacket).seq>>
        \/ /\ <<b, r[2]>> \in DOMAIN m_requestSendTimes
           /\ backendSock[b].owner = r[1]}

\* the backend sockets a client's backend map names
MappedSockets(map, c) ==
    IF c \in DOMAIN map THEN {map[c][a] : a \in DOMAIN map[c]} ELSE {}

\* C5: RecordBackendLatency has been called once per response processed, each
\* time with rtt = (time of processing) - (time the proxy sent the request to
\* the backend).
C5_LatencyPerResponse ==
    \A r \in ReqIds :
        /\ Len(latencyCalls[r]) = reqNotes[r].responses
        /\ \A i \in DOMAIN latencyCalls[r] :
               /\ latencyCalls[r][i].sentAt # Never
               /\ latencyCalls[r][i].rtt = latencyCalls[r][i].at - latencyCalls[r][i].sentAt

\* a response was processed one time unit after the proxy sent its request
C5_Witness ==
    \E r \in ReqIds :
        /\ reqNotes[r].responses = 1
        /\ Len(latencyCalls[r]) = 1
        /\ latencyCalls[r][1].rtt = 1

OwnedSockets(c) == {b \in BSockets : backendSock[b].owner = c}

\* C7: HandleClientClose / HandleClientError of client c close every backend
\* socket of c's backend map, issue one NotifyRequestFinished per request in
\* flight on those sockets, erase c's rx buffer and backend-map entry, and
\* leave no map that refers to c or to a backend socket c has opened.
C7_ClientCloseOrError ==
    [][lastOp'.op \in {"HandleClientClose", "HandleClientError"} =>
         /\ \A b \in MappedSockets(m_clientBackendSockets, lastOp'.sock) :
                /\ backendSock'[b].state = "closed"
                /\ backendSock'[b].cbs = {}
                /\ \A k \in DOMAIN m_requestSendTimes :
                       k[1] = b => reqNotes'[<<lastOp'.sock, k[2]>>].fin
                                       = reqNotes[<<lastOp'.sock, k[2]>>].fin + 1
         /\ lastOp'.sock \notin DOMAIN m_clientRxBuffers'
         /\ lastOp'.sock \notin DOMAIN m_clientBackendSockets'
         /\ \A b \in DOMAIN m_backendClientMap' : m_backendClientMap'[b] # lastOp'.sock
         /\ \A b \in DOMAIN m_pendingBackendRequests' :
                m_pendingBackendRequests'[b].clientSocket # lastOp'.sock
         /\ \A b \in OwnedSockets(lastOp'.sock) :
                /\ b \notin DOMAIN m_backendClientMap'
                /\ b \notin DOMAIN m_backendRxBuffers'
                /\ b \notin DOMAIN m_pendingBackendRequests'
                /\ \A k \in DOMAIN m_requestSendTimes' : k[1] # b
    ]_vars

\* a client with a request in flight on one of its backend sockets has closed
C7_Witness ==
    /\ lastOp.op \in {"HandleClientClose", "HandleClientError"}
    /\ lastOp.k >= 1
    /\ \E b \in OwnedSockets(lastOp.sock) : backendSock[b].state = "closed"

\* C8: a read of a client socket without a hard error, made while the selector
\* has no backend to choose, drops the requests it extracts: no
\* NotifyRequestSent, no reply, no backend socket, pending record, send-time
\* entry or map entry is created, the client is not torn down, and unless the
\* read hit the end of the stream no whole request is left in its rx buffer.
C8_NoBackendDropsRequest ==
    [][(/\ lastOp'.op = "HandleClientRead"
        /\ m_backends = <<>>
        /\ lastOp'.sock \in DOMAIN m_clientRxBuffers
        /\ clientSock[lastOp'.sock].errno \in SoftErrnos) =>
         /\ sentCalls' = sentCalls
         /\ finCalls' = finCalls
         /\ \A r \in ReqIds : [reqNotes'[r] EXCEPT !.stamp = reqNotes[r].stamp] = reqNotes[r]
         /\ relayed' = relayed
         /\ backendSock' = backendSock
         /\ m_pendingBackendRequests' = m_pendingBackendRequests
         /\ m_requestSendTimes' = m_requestSendTimes
         /\ m_backendClientMap' = m_backendClientMap
         /\ m_clientBackendSockets' = m_clientBackendSockets
         /\ m_backendRxBuffers' = m_backendRxBuffers
         /\ clientSock'[lastOp'.sock].cbs = clientSock[lastOp'.sock].cbs
         /\ clientSock'[lastOp'.sock].errno = clientSock[lastOp'.sock].errno
         /\ lastOp'.sock \in DOMAIN m_clientRxBuffers'
         /\ clientSock'[lastOp'.sock].state = "open" =>
                Reassemble(m_clientRxBuffers'[lastOp'.sock]).msgs = <<>>
    ]_vars

\* a client has written two requests, the read has consumed both, nothing
\* was sent for them and the client is still open
C8_Witness ==
    /\ lastOp.op = "HandleClientRead"
    /\ lastOp.k = 2
    /\ m_backends = <<>>
    /\ clientSock[lastOp.sock].state = "open"
    /\ clientSock[lastOp.sock].tail = <<>>
    /\ lastOp.sock \in DOMAIN m_clientRxBuffers
    /\ m_clientRxBuffers[lastOp.sock] = <<>>
    /\ \A r \in ReqIds : reqNotes[r].sent = 0

\* the backend list as configured: addresses and weights, without the counters
Configured(backends) == [i \in DOMAIN backends |-> <<backends[i].address, backends[i].weight>>]

\* what C9 says of the maps and of the listener
StopClearsMaps ==
    /\ ~m_listeningSocket'
    /\ m_clientRxBuffers' = EmptyMap
    /\ m_backendRxBuffers' = EmptyMap
    /\ m_clientBackendSockets' = EmptyMap
    /\ m_backendClientMap' = EmptyMap
    /\ m_pendingBackendRequests' = EmptyMap
    /\ m_requestSendTimes' = EmptyMap
    /\ \A c \in Clients : clientSock[c].state # "none" => clientSock'[c].state = "closed"

\* C9 (amended): StopApplication closes the listener, so that no accept follows,
\* closes every client and empties the six maps; the backend list keeps its
\* addresses and weights and the selector keeps its metric entries, and the
\* in-flight counters change only downwards, by the NotifyRequestFinished
\* calls of the cleanup.
C9_StopClearsAndKeepsBackends ==
    [][/\ lastOp'.op = "StopApplication" =>
            /\ StopClearsMaps
            /\ Configured(m_backends') = Configured(m_backends)
            /\ DOMAIN m_backendMetrics' = DOMAIN m_backendMetrics
            /\ \A a \in Addrs :
                   /\ InFlightCount(m_backends', m_backendMetrics', a)
                          <= InFlightCount(m_backends, m_backendMetrics, a)
                   /\ InFlightCount(m_backends, m_backendMetrics, a)
                          - InFlightCount(m_backends', m_backendMetrics', a)
                          <= finCalls'[a] - finCalls[a]
       /\ phase = "stopped" => ~m_listeningSocket' /\ lastOp'.op # "HandleAccept"
    ]_vars

\* C9 as stated: StopApplication leaves the backend list and the selector
\* state exactly as they were.
C9_StopLeavesSelectorState ==
    [][lastOp'.op = "StopApplication" =>
            /\ StopClearsMaps
            /\ m_backends' = m_backends
            /\ m_backendMetrics' = m_backendMetrics
    ]_vars

\* the application was stopped with requests outstanding and notified the
\* selector for some of them
C9_Witness ==
    /\ lastOp.op = "StopApplication"
    /\ lastOp.k >= 1
    /\ \E a \in Addrs : finCalls[a] >= 1
    /\ m_backends # <<>>

\* C10: HandleBackendError of a socket with k requests pending or in flight
\* lowers the selector's in-flight count of the socket's address by k, and
\* leaves no client backend map naming the socket, so that the next request
\* for the address opens a new socket.
C10_ErrorDropsCount ==
    [][lastOp'.op = "HandleBackendError" =>
         /\ InFlightCount(m_backends', m_backendMetrics', backendSock[lastOp'.sock].peer)
                = InFlightCount(m_backends, m_backendMetrics, backendSock[lastOp'.sock].peer)
                      - lastOp'.k
         /\ \A c \in DOMAIN m_clientBackendSockets' :
                lastOp'.sock \notin MappedSockets(m_clientBackendSockets', c)
    ]_vars

\* the sequence numbers ChooseBackend was called for on behalf of client c, in call order
RECURSIVE SeqsChosenFor(_, _)
SeqsChosenFor(calls, c) ==
    IF calls = <<>> THEN <<>>
    ELSE (IF Head(calls)[1] = c THEN <<Head(calls)[2]>> ELSE <<>>)
             \o SeqsChosenFor(Tail(calls), c)

\* bytes of client c's requests that have left the rx buffer as whole requests:
\* what the client wrote, less what is still in transit or buffered
BytesExtracted(c) ==
    (headerSize + 1) * (clientSock[c].next - 1)
        - Len(clientSock[c].tail) - Len(m_clientRxBuffers[c])

\* the packets of `packets` whose seq is carried by one of `wanted`, in order
RECURSIVE PacketsAmong(_, _)
PacketsAmong(packets, wanted) ==
    IF packets = <<>> THEN <<>>
    ELSE (IF \E i \in DOMAIN wanted :
                 Deserialize(wanted[i]).seq = Deserialize(Head(packets)).seq
          THEN <<Head(packets)>> ELSE <<>>)
             \o PacketsAmong(Tail(packets), wanted)

\* the responses of backend socket b that were handed to its client, in order
RelayedFrom(b) ==
    IF backendSock[b].owner = Null THEN <<>>
    ELSE PacketsAmong(relayed[backendSock[b].owner], arrived[b])

\* whether a is b with some elements left out
RECURSIVE IsSubseq(_, _)
IsSubseq(a, b) ==
    IF a = <<>> THEN TRUE
    ELSE IF b = <<>> THEN FALSE
    ELSE IF Head(a) = Head(b) THEN IsSubseq(Tail(a), Tail(b))
    ELSE IsSubseq(a, Tail(b))

\* the choose half of C11
ChooseOncePerRequest ==
    /\ Cardinality({chooseCalls[i] : i \in DOMAIN chooseCalls}) = Len(chooseCalls)
    /\ \A c \in DOMAIN m_clientRxBuffers :
           /\ BytesExtracted(c) % (headerSize + 1) = 0
           /\ SeqsChosenFor(chooseCalls, c)
                  = [i \in 1..(BytesExtracted(c) \div (headerSize + 1)) |-> i]

\* C11: ChooseBackend has been called once for each request extracted from a
\* client's rx buffer, in the order of extraction, and the responses extracted
\* from each backend rx buffer have each been relayed to the socket's client
\* once, in the order of their arrival.
C11_ChooseAndRelayOnce ==
    /\ ChooseOncePerRequest
    /\ \A b \in BSockets : RelayedFrom(b) = arrived[b]

\* C11 without the responses whose Send to the client failed or was not tried:
\* no response is relayed twice or out of order, and none is missing while
\* the client socket has no error
C11_RelayAtMostOnce ==
    /\ ChooseOncePerRequest
    /\ \A b \in BSockets :
           /\ IsSubseq(RelayedFrom(b), arrived[b])
           /\ (/\ backendSock[b].owner # Null
               /\ clientSock[backendSock[b].owner].errno = NOTERROR)
                  => RelayedFrom(b) = arrived[b]

\* the request <<c, q>> as client c wrote it
WrittenFrame(c, q) ==
    Frame([seq |-> q, timestamp |-> reqNotes[<<c, q>>].stamp, payloadSize |-> U32(1),
           l7Identifier |-> q], 1)

\* C12: every request held in a pending record or handed to a backend socket
\* is the request as its client wrote it, byte for byte, and every response
\* handed to a client carries the seq, l7 identifier and timestamp of a
\* request that this client wrote.
C12_ForwardsUnmodified ==
    /\ \A b \in DOMAIN m_pendingBackendRequests :
           /\ Deserialize(m_pendingBackendRequests[b].requestPacket).seq \in Seqs
           /\ reqNotes[<<m_pendingBackendRequests[b].clientSocket,
                         Deserialize(m_pendingBackendRequests[b].requestPacket).seq>>].stamp # Never
           /\ m_pendingBackendRequests[b].requestPacket
                  = WrittenFrame(m_pendingBackendRequests[b].clientSocket,
                                 Deserialize(m_pendingBackendRequests[b].requestPacket).seq)
    /\ \A b \in BSockets : \A i \in DOMAIN backendSock[b].inbox :
           /\ Deserialize(backendSock[b].inbox[i]).seq \in Seqs
           /\ backendSock[b].inbox[i]
                  = WrittenFrame(backendSock[b].owner, Deserialize(backendSock[b].inbox[i]).seq)
    /\ \A c \in Clients : \A i \in DOMAIN relayed[c] :
           /\ Deserialize(relayed[c][i]).seq \in Seqs
           /\ reqNotes[<<c, Deserialize(relayed[c][i]).seq>>].stamp # Never
           /\ Deserialize(relayed[c][i]).timestamp
                  = reqNotes[<<c, Deserialize(relayed[c][i]).seq>>].stamp
           /\ Deserialize(relayed[c][i]).l7Identifier
                  = Deserialize(WrittenFrame(c, Deserialize(relayed[c][i]).seq)).l7Identifier

\* a request that waited for its connect has been answered and the response
\* was handed to its client
C12_Witness ==
    /\ lastOp.op = "HandleBackendRead"
    /\ \E c \in Clients : relayed[c] # <<>>
    /\ \E r \in ReqIds : reqNotes[r].responses >= 1 /\ reqNotes[r].sent >= 1

\* C13: a backend socket is mapped to the client it was created for and to no
\* other, and a response is handed to a client only by HandleBackendRead of a
\* backend socket created for that client, out of the responses that arrived
\* on that socket.
C13_OneClientPerBackendSocket ==
    [][/\ \A b \in DOMAIN m_backendClientMap' :
              m_backendClientMap'[b] = backendSock'[b].owner
       /\ \A c \in Clients :
              relayed'[c] # relayed[c] =>
                  /\ lastOp'.op = "HandleBackendRead"
                  /\ backendSock[lastOp'.sock].owner = c
                  /\ Len(relayed'[c]) > Len(relayed[c])
                  /\ SubSeq(relayed'[c], 1, Len(relayed[c])) = relayed[c]
                  /\ \A i \in (Len(relayed[c]) + 1)..Len(relayed'[c]) :
                         \E j \in DOMAIN arrived'[lastOp'.sock] :
                             arrived'[lastOp'.sock][j] = relayed'[c][i]
    ]_vars

\* with two clients connected, a response has been relayed to the second one
C13_Witness ==
    /\ lastOp.op = "HandleBackendRead"
    /\ \E c1, c2 \in Clients :
           /\ c1 < c2
           /\ clientSock[c1].state = "open"
           /\ c1 \in DOMAIN m_clientRxBuffers
           /\ relayed[c2] # <<>>
           /\ relayed[c1] = <<>>

\* whether the read callback of socket r is set
RecvOn(cs, bs, r) == IF r \in Clients THEN "recv" \in cs[r].cbs ELSE "recv" \in bs[r].cbs

\* whether socket r is free of errors
NoError(cs, bs, r) == IF r \in Clients THEN cs[r].errno = NOTERROR ELSE bs[r].errno = NOTERROR

\* the sockets on the opposite side of the flows through socket x: the owning
\* client of a backend socket, the backend sockets of a client
Opposite(bcmap, cbmap, x) ==
    IF x \in Clients THEN MappedSockets(cbmap, x)
    ELSE IF x \in DOMAIN bcmap THEN {bcmap[x]} ELSE {}

\* a partial Send on x leaves the reads of the opposite side disabled
PartialSendDisablesReads ==
    \A x \in congested' \ congested :
        \A r \in Opposite(m_backendClientMap', m_clientBackendSockets', x) :
            NoError(clientSock', backendSock', r) => ~RecvOn(clientSock', backendSock', r)

\* the writability callback of x re-enables them and schedules a read poll
WritableEnablesReads ==
    (lastOp'.op = "HandleSend" /\ lastOp'.sock \in congested) =>
        \A r \in Opposite(m_backendClientMap, m_clientBackendSockets, lastOp'.sock) :
            NoError(clientSock, backendSock, r) =>
                /\ RecvOn(clientSock', backendSock', r)
                /\ r \in scheduled'

\* the writability callback of x re-enables no reads that a still congested
\* socket other than x keeps disabled
OtherWritableKeepsDisabled ==
    lastOp'.op = "HandleSend" =>
        \A r \in Clients \cup BSockets :
            (~RecvOn(clientSock, backendSock, r) /\ RecvOn(clientSock', backendSock', r)) =>
                ~\E y \in congested \ {lastOp'.sock} :
                     r \in Opposite(m_backendClientMap, m_clientBackendSockets, y)

\* C14: a Send that does not fully enqueue its packet disables the reads on
\* the opposite side of the flow; the writability callback of the congested
\* socket re-enables them and schedules a read poll; the writability callback
\* of another socket does not re-enable them.
C14_BackPressure ==
    [][PartialSendDisablesReads /\ WritableEnablesReads /\ OtherWritableKeepsDisabled]_vars

\* C14 without its last part
C14_DisableAndEnable ==
    [][PartialSendDisablesReads /\ WritableEnablesReads]_vars

(***************************************************************************)
(* C15                                                                     *)
(***************************************************************************)
\* the addresses of a backend list
AddressesOf(backends) == {backends[i].address : i \in DOMAIN backends}

\* C15: in the Peak-EWMA selector SetBackends keeps the EwmaMetric of every
\* address that is in both the old and the new backend set exactly as it
\* was, and discards a metric only when its address is absent from the new
\* set.
C15_SetBackendsPreservesMetrics ==
    [][lastOp'.op = "SetBackends" /\ algo = "PeakEWMA" =>
            \A a \in DOMAIN m_backendMetrics :
                a \in AddressesOf(m_backends') =>
                    /\ a \in DOMAIN m_backendMetrics'
                    /\ m_backendMetrics'[a] = m_backendMetrics[a]
    ]_vars

\* the part of C15 that the code keeps: after SetBackends the metrics are
\* those of the new backend set, so a metric is discarded when its address
\* is absent from it
C15_MetricsFollowBackends ==
    [][lastOp'.op = "SetBackends" /\ algo = "PeakEWMA" =>
            DOMAIN m_backendMetrics' = AddressesOf(m_backends')
    ]_vars

(***************************************************************************)
(* The Peak-EWMA selector on its own: PeakEwmaLoadBalancer and EwmaMetric. *)
(* Time is in nanoseconds and advances in ticks of TickNs.  The decay time *)
(* is TickNs / ln 2, so that exp(-tdiff / m_decayTimeNsDouble) is one half *)
(* per tick; costs are multiples of TickNs / 2^MaxTicks and every product  *)
(* with that weight is exact.  The rounding of the double in its last      *)
(* place is not modelled.                                                  *)
(***************************************************************************)
NumSelAddrs == 2
MaxTicks == 2
MaxPending == 1
MaxRttTicks == 2
TickNs == 1000000
PenaltyNs == 1000000000
DoubleMax == 2147483647

SelAddrs == 1..NumSelAddrs
RttsNs == {k * TickNs : k \in 1..MaxRttTicks}

Max(a, b) == IF a >= b THEN a ELSE b

RECURSIVE Pow2(_)
Pow2(k) == IF k = 0 THEN 1 ELSE 2 * Pow2(k - 1)

\* x * w with w = std::exp(-tdiff / m_decayTimeNsDouble)
TimesW(x, tdiff) == x \div Pow2(tdiff \div TickNs)

\* EwmaMetric(decayTime), all three fields
NewEwmaMetric(nowNs) == [m_stampNs |-> nowNs, m_pending |-> 0, m_costNs |-> 0]

Observe(m, rttNs, nowNs) ==
    LET tdiff == Max(0, nowNs - m.m_stampNs)
        cost == IF rttNs > m.m_costNs /\ m.m_costNs > 0 THEN 0 ELSE m.m_costNs
    IN  [m EXCEPT !.m_stampNs = nowNs,
                  !.m_costNs = TimesW(cost, tdiff) + (rttNs - TimesW(rttNs, tdiff))]

\* the decay that GetLoad applies to the metric before it reads it
Decayed(m, nowNs) ==
    LET tdiff == Max(0, nowNs - m.m_stampNs)
    IN  IF tdiff > 0
        THEN [m EXCEPT !.m_costNs = TimesW(@, tdiff), !.m_stampNs = nowNs]
        ELSE m

LoadScore(m) ==
    IF m.m_costNs <= 0 /\ m.m_pending > 0
    THEN PenaltyNs + m.m_pending
    ELSE m.m_costNs * (m.m_pending + 1)

\* the value EwmaMetric::GetLoad returns
GetLoad(m, nowNs) == Max(0, LoadScore(Decayed(m, nowNs)))

\* metric_it->second.GetLoad() where the metric exists, max() where not
LoadAt(metrics, address, nowNs) ==
    IF address \in DOMAIN metrics THEN GetLoad(metrics[address], nowNs) ELSE DoubleMax

\* the metric map after that call
Touch(metrics, address, nowNs) ==
    IF address \in DOMAIN metrics
    THEN [metrics EXCEPT ![address] = Decayed(@, nowNs)]
    ELSE metrics

Chosen(backends, metrics, i1, i2, c) ==
    [ok |-> TRUE, chosen |-> backends[c].address, idx1 |-> i1, idx2 |-> i2,
     chosenIdx |-> c, metrics |-> metrics]

\* the comparison of the two loads; on a tie GetValue() < 0.5 decides
LowerLoad_PicksHigher(load1, load2, idx1, idx2) ==
    IF load1 < load2 THEN {idx2} ELSE IF load2 < load1 THEN {idx1} ELSE {idx1, idx2}

LowerLoad(load1, load2, idx1, idx2) ==
    IF load1 < load2 THEN {idx1} ELSE IF load2 < load1 THEN {idx2} ELSE {idx1, idx2}

\* ChooseBackend once idx1 and idx2 are drawn; idx2 = idx1 when the ten
\* redraws all collided
TwoChoices(backends, metrics, nowNs, idx1, idx2) ==
    LET addr1 == backends[idx1].address
        addr2 == backends[idx2].address
        after1 == Touch(metrics, addr1, nowNs)
        after2 == Touch(after1, addr2, nowNs)
    IN  IF idx1 = idx2
        THEN {Chosen(backends, after1, idx1, idx2, idx1)}
        ELSE {Chosen(backends, after2, idx1, idx2, c) :
                 c \in LowerLoad(LoadAt(metrics, addr1, nowNs),
                                 LoadAt(after1, addr2, nowNs), idx1, idx2)}

PeakEwmaChoose(backends, metrics, nowNs) ==
    IF backends = <<>>
    THEN {[ok |-> FALSE, chosen |-> Null, idx1 |-> 0, idx2 |-> 0, chosenIdx |-> 0,
           metrics |-> metrics]}
    ELSE IF Len(backends) = 1
    THEN {Chosen(backends, Touch(metrics, backends[1].address, nowNs), 1, 1, 1)}
    ELSE UNION {TwoChoices(backends, metrics, nowNs, idx1, idx2) :
                   idx1 \in DOMAIN backends, idx2 \in DOMAIN backends}

\* LoadBalancerApp::SetBackends and AddBackend on the backend list alone
BaseSetBackends(backends) ==
    [i \in 1..Len(backends) |-> BackendInfo(backends[i][1], backends[i][2])]

BaseAddBackend(backends, backendAddress, weight) ==
    LET i == FindBackendInfo(backends, backendAddress)
    IN  IF i = 0
        THEN Append(backends, BackendInfo(backendAddress, weight))
        ELSE [backends EXCEPT ![i].weight = weight]

\* an AddBackend that constructs the metric whether or not one existed
AddMetric_Always(metrics, backendAddress, nowNs) ==
    Put(metrics, backendAddress, NewEwmaMetric(nowNs))

\* the metric map after PeakEwmaLoadBalancer::AddBackend
AddMetric(metrics, backendAddress, nowNs) ==
    IF backendAddress \notin DOMAIN metrics
    THEN Put(metrics, backendAddress, NewEwmaMetric(nowNs))
    ELSE metrics

SelOp(name, address) == [op |-> name, address |-> address]

PeakEwmaSetBackends(backends) ==
    /\ sel_backends' = BaseSetBackends(backends)
    /\ sel_metrics' = [a \in {backends[i][1] : i \in 1..Len(backends)} |->
                          NewEwmaMetric(sel_now)]
    /\ sel_last' = SelOp("SetBackends", Null)
    /\ UNCHANGED <<sel_now, wrrVars, lrVars, hashVars, coreVars, frameVars, mainVars>>

PeakEwmaAddBackend(backendAddress) ==
    /\ sel_backends' = BaseAddBackend(sel_backends, backendAddress, 1)
    /\ sel_metrics' = AddMetric(sel_metrics, backendAddress, sel_now)
    /\ sel_last' = SelOp("AddBackend", backendAddress)
    /\ UNCHANGED <<sel_now, wrrVars, lrVars, hashVars, coreVars, frameVars, mainVars>>

PeakEwmaChooseBackend ==
    /\ \E r \in PeakEwmaChoose(sel_backends, sel_metrics, sel_now) :
          /\ sel_metrics' = r.metrics
          /\ sel_last' = [op |-> "ChooseBackend", address |-> r.chosen, ok |-> r.ok,
                          idx1 |-> r.idx1, idx2 |-> r.idx2, chosenIdx |-> r.chosenIdx]
    /\ UNCHANGED <<sel_now, sel_backends, wrrVars, lrVars, hashVars, coreVars, frameVars, mainVars>>

PeakEwmaNotifyRequestSent(backendAddress) ==
    /\ backendAddress \in DOMAIN sel_metrics
    /\ sel_metrics[backendAddress].m_pending < MaxPending
    /\ sel_metrics' = [sel_metrics EXCEPT ![backendAddress].m_pending = @ + 1]
    /\ sel_last' = SelOp("NotifyRequestSent", backendAddress)
    /\ UNCHANGED <<sel_now, sel_backends, wrrVars, lrVars, hashVars, coreVars, frameVars, mainVars>>

PeakEwmaNotifyRequestFinished(backendAddress) ==
    /\ backendAddress \in DOMAIN sel_metrics
    /\ sel_metrics' = [sel_metrics EXCEPT ![backendAddress].m_pending = DecrementFloor(@)]
    /\ sel_last' = SelOp("NotifyRequestFinished", backendAddress)
    /\ UNCHANGED <<sel_now, sel_backends, wrrVars, lrVars, hashVars, coreVars, frameVars, mainVars>>

PeakEwmaRecordBackendLatency(backendAddress, rtt) ==
    /\ backendAddress \in DOMAIN sel_metrics
    /\ sel_metrics' = [sel_metrics EXCEPT ![backendAddress] = Observe(@, rtt, sel_now)]
    /\ sel_last' = SelOp("RecordBackendLatency", backendAddress)
    /\ UNCHANGED <<sel_now, sel_backends, wrrVars, lrVars, hashVars, coreVars, frameVars, mainVars>>

SelTick ==
    /\ sel_now < MaxTicks * TickNs
    /\ sel_now' = sel_now + TickNs
    /\ sel_last' = SelOp("Tick", Null)
    /\ UNCHANGED <<sel_backends, sel_metrics, wrrVars, lrVars, hashVars, coreVars, frameVars, mainVars>>

\* the backend lists handed to SetBackends: a prefix of the addresses
EwmaBackendLists == {[i \in 1..n |-> <<i, 1>>] : n \in 0..NumSelAddrs}

EwmaNext ==
    \/ \E backends \in EwmaBackendLists : PeakEwmaSetBackends(backends)
    \/ \E a \in SelAddrs : PeakEwmaAddBackend(a)
    \/ PeakEwmaChooseBackend
    \/ \E a \in SelAddrs : PeakEwmaNotifyRequestSent(a)
    \/ \E a \in SelAddrs : PeakEwmaNotifyRequestFinished(a)
    \/ \E a \in SelAddrs, rtt \in RttsNs : PeakEwmaRecordBackendLatency(a, rtt)
    \/ SelTick

\* the application around the selector stays as constructed
EwmaInit == Init /\ algo = "PeakEWMA"

EwmaSpec == EwmaInit /\ [][EwmaNext]_vars

(***************************************************************************)
(* C16                                                                     *)
(***************************************************************************)
\* C16: in the Peak-EWMA selector AddBackend of an address that has a metric
\* leaves that metric (cost, pending, last update) as it was; for an address
\* without one it creates a metric with last update = now, cost 0 and
\* pending 0; the metrics of all other addresses are unchanged.
C16_AddBackendMetrics ==
    [][sel_last'.op = "AddBackend" =>
            /\ DOMAIN sel_metrics' = DOMAIN sel_metrics \cup {sel_last'.address}
            /\ \A a \in DOMAIN sel_metrics : sel_metrics'[a] = sel_metrics[a]
            /\ sel_last'.address \notin DOMAIN sel_metrics =>
                   sel_metrics'[sel_last'.address] =
                       [m_stampNs |-> sel_now, m_pending |-> 0, m_costNs |-> 0]
    ]_vars

\* an address was added anew, after time had passed, next to one whose
\* metric has a cost, a pending request and an older stamp
C16_Witness ==
    /\ sel_last.op = "AddBackend"
    /\ sel_now > 0
    /\ \E a \in DOMAIN sel_metrics :
          /\ sel_metrics[a].m_costNs > 0
          /\ sel_metrics[a].m_pending > 0
          /\ sel_metrics[a].m_stampNs < sel_now
    /\ sel_metrics[sel_last.address].m_stampNs = sel_now
    /\ sel_metrics[sel_last.address].m_costNs = 0

(***************************************************************************)
(* C17                                                                     *)
(***************************************************************************)
\* the load() of the backend at an index, read at the time of the call
LoadOfIndex(backends, metrics, nowNs, idx) ==
    LoadAt(metrics, backends[idx].address, nowNs)

\* C17: Peak-EWMA ChooseBackend with one backend returns that backend; with
\* two or more it draws two indices, which are distinct unless the redraws
\* all collided, and returns one of the two whose load() is not strictly
\* greater than the other's; it fails exactly when there are no backends.
C17_ChooseLowerLoad ==
    [][sel_last'.op = "ChooseBackend" =>
            /\ sel_last'.ok <=> sel_backends # <<>>
            /\ Len(sel_backends) = 1 => sel_last'.address = sel_backends[1].address
            /\ Len(sel_backends) >= 2 =>
                   /\ sel_last'.idx1 \in DOMAIN sel_backends
                   /\ sel_last'.idx2 \in DOMAIN sel_backends
                   /\ sel_last'.chosenIdx \in {sel_last'.idx1, sel_last'.idx2}
                   /\ sel_last'.address = sel_backends[sel_last'.chosenIdx].address
                   /\ \A i \in {sel_last'.idx1, sel_last'.idx2} :
                          LoadOfIndex(sel_backends, sel_metrics, sel_now, sel_last'.chosenIdx)
                              <= LoadOfIndex(sel_backends, sel_metrics, sel_now, i)
    ]_vars

\* two distinct backends were drawn whose loads differ, one by its cost and
\* the other by the penalty of a pending request without a cost, and the
\* second index drawn was returned
C17_Witness ==
    /\ sel_last.op = "ChooseBackend"
    /\ Len(sel_backends) >= 2
    /\ sel_last.idx1 # sel_last.idx2
    /\ sel_last.chosenIdx = sel_last.idx2
    /\ LoadOfIndex(sel_backends, sel_metrics, sel_now, sel_last.idx2) > 0
    /\ LoadOfIndex(sel_backends, sel_metrics, sel_now, sel_last.idx2)
           < LoadOfIndex(sel_backends, sel_metrics, sel_now, sel_last.idx1)
    /\ LoadOfIndex(sel_backends, sel_metrics, sel_now, sel_last.idx1) > PenaltyNs

(***************************************************************************)
(* The weighted round-robin selector on its own:                           *)
(* WeightedRoundRobinLoadBalancer.  The weights of a configuration are     *)
(* multiples of sel_unit, which is 1 or 2^30, and are held as the          *)
(* multiplier: max, gcd, the subtraction and the comparisons of the        *)
(* algorithm are the same on the multipliers, and only the conversions     *)
(* between uint32_t and int32_t depend on the unit.                        *)
(***************************************************************************)
MaxWeight == 3
MaxPicks == 10
WideUnit == 1073741824

WeightUnits == {1, WideUnit}

\* the multipliers a uint32_t weight can have
Weights(unit) == IF unit = 1 THEN 0..MaxWeight ELSE 0..(IF MaxWeight < 3 THEN MaxWeight ELSE 3)

\* conversion of x * unit to int32_t; with unit 1 every value of the model
\* is within int32_t, with unit 2^30 the word is four units wide
Int32(x, unit) == IF unit = 1 THEN x ELSE ((x + 2 + 8) % 4) - 2

\* conversion of x * unit to uint32_t
Uint32(x, unit) == IF unit = 1 THEN x ELSE (x + 8) % 4

RECURSIVE Gcd(_, _)
Gcd(a, b) == IF b = 0 THEN a ELSE Gcd(b, a % b)

RECURSIVE GcdOfPositive(_, _, _)
\* the loop of RecalculateWrrState over the weights from position i on
GcdOfPositive(backends, i, calculatedGcd) ==
    IF i > Len(backends) THEN calculatedGcd
    ELSE IF backends[i].weight > 0
    THEN GcdOfPositive(backends, i + 1,
                       IF calculatedGcd = 0 THEN backends[i].weight
                       ELSE Gcd(calculatedGcd, backends[i].weight))
    ELSE GcdOfPositive(backends, i + 1, calculatedGcd)

RECURSIVE MaxOfPositive(_, _, _)
MaxOfPositive(backends, i, maxWeight) ==
    IF i > Len(backends) THEN maxWeight
    ELSE MaxOfPositive(backends, i + 1, Max(maxWeight, backends[i].weight))

RecalculateWrrState(backends) ==
    IF backends = <<>>
    THEN [m_maxWeight |-> 0, m_gcdWeight |-> 0, m_currentIndex |-> 0, m_currentWeight |-> 0]
    ELSE LET maxWeight == MaxOfPositive(backends, 1, 0)
             calculatedGcd == GcdOfPositive(backends, 1, 0)
         IN  [m_maxWeight |-> maxWeight,
              m_gcdWeight |-> IF maxWeight = 0 THEN 0
                              ELSE IF calculatedGcd = 0 THEN maxWeight ELSE calculatedGcd,
              m_currentIndex |-> Len(backends) - 1,
              m_currentWeight |-> 0]

WrrResult(ok, address, index, weight) ==
    [ok |-> ok, chosen |-> address, m_currentIndex |-> index, m_currentWeight |-> weight]

\* the marker after the step to position i
NextMarker(i, weight, maxW, gcdW, unit) ==
    IF i # 0 THEN weight
    ELSE IF Int32(weight - gcdW, unit) <= 0 THEN Int32(maxW, unit)
    ELSE Int32(weight - gcdW, unit)

Accepts(backend, weight, unit) ==
    backend.weight > 0 /\ backend.weight >= Uint32(weight, unit)

RECURSIVE WrrLoop(_, _, _, _, _, _)
\* the while (true) loop of ChooseBackend; backend i of the code is
\* backends[i + 1]
WrrLoop(backends, index, weight, maxW, gcdW, unit) ==
    IF Accepts(backends[((index + 1) % Len(backends)) + 1],
               NextMarker((index + 1) % Len(backends), weight, maxW, gcdW, unit), unit)
    THEN WrrResult(TRUE, backends[((index + 1) % Len(backends)) + 1].address,
                   (index + 1) % Len(backends),
                   NextMarker((index + 1) % Len(backends), weight, maxW, gcdW, unit))
    ELSE WrrLoop(backends, (index + 1) % Len(backends),
                 NextMarker((index + 1) % Len(backends), weight, maxW, gcdW, unit),
                 maxW, gcdW, unit)

\* a ChooseBackend that fails when no backend has a positive weight
WrrChoose_NoFallback(backends, index, weight, maxW, gcdW, unit) ==
    IF backends = <<>> \/ maxW = 0
    THEN WrrResult(FALSE, Null, index, weight)
    ELSE WrrLoop(backends, index, weight, maxW, gcdW, unit)

WrrChoose(backends, index, weight, maxW, gcdW, unit) ==
    IF backends = <<>>
    THEN WrrResult(FALSE, Null, index, weight)
    ELSE IF maxW = 0
    THEN WrrResult(TRUE, backends[1].address, index, weight)
    ELSE WrrLoop(backends, index, weight, maxW, gcdW, unit)

\* the WRR state after a change of the backend list
Rebuilt(backends) ==
    /\ sel_backends' = backends
    /\ m_maxWeight' = RecalculateWrrState(backends).m_maxWeight
    /\ m_gcdWeight' = RecalculateWrrState(backends).m_gcdWeight
    /\ m_currentIndex' = RecalculateWrrState(backends).m_currentIndex
    /\ m_currentWeight' = RecalculateWrrState(backends).m_currentWeight
    /\ sel_picks' = <<>>

WrrSetBackends(backends) ==
    /\ Rebuilt(BaseSetBackends(backends))
    /\ sel_last' = SelOp("SetBackends", Null)
    /\ UNCHANGED <<sel_now, sel_unit, ewmaVars, lrVars, hashVars, coreVars, frameVars, mainVars>>

WrrAddBackend(backendAddress, weight) ==
    /\ Rebuilt(BaseAddBackend(sel_backends, backendAddress, weight))
    /\ sel_last' = SelOp("AddBackend", backendAddress)
    /\ UNCHANGED <<sel_now, sel_unit, ewmaVars, lrVars, hashVars, coreVars, frameVars, mainVars>>

WrrChooseBackend ==
    /\ Len(sel_picks) < MaxPicks
    /\ \E r \in {WrrChoose(sel_backends, m_currentIndex, m_currentWeight,
                          m_maxWeight, m_gcdWeight, sel_unit)} :
          /\ m_currentIndex' = r.m_currentIndex
          /\ m_currentWeight' = r.m_currentWeight
          /\ sel_picks' = Append(sel_picks, r.chosen)
          /\ sel_last' = [op |-> "ChooseBackend", address |-> r.chosen, ok |-> r.ok]
    /\ UNCHANGED <<sel_now, sel_unit, sel_backends, m_maxWeight, m_gcdWeight,
                   ewmaVars, lrVars, hashVars, coreVars, frameVars, mainVars>>

\* the backend lists handed to SetBackends: a prefix of the addresses, each
\* with a weight
WrrBackendLists(unit) ==
    UNION {[1..n -> Weights(unit)] : n \in 0..NumSelAddrs}

WithAddresses(weights) == [i \in 1..Len(weights) |-> <<i, weights[i]>>]

WrrInit ==
    CoreInit /\ FrameIdle /\ SelConstructed /\ HashIdle /\ MainIdle /\ sel_unit \in WeightUnits

WrrNext ==
    \/ \E weights \in WrrBackendLists(sel_unit) : WrrSetBackends(WithAddresses(weights))
    \/ \E a \in SelAddrs, w \in Weights(sel_unit) : WrrAddBackend(a, w)
    \/ WrrChooseBackend

WrrSpec == WrrInit /\ [][WrrNext]_vars

(***************************************************************************)
(* C19                                                                     *)
(***************************************************************************)
RECURSIVE SumWeights(_)
SumWeights(backends) ==
    IF backends = <<>> THEN 0 ELSE Head(backends).weight + SumWeights(Tail(backends))

\* how often an address occurs among picks[from + 1 .. from + n]
TimesChosen(picks, from, n, address) ==
    Cardinality({k \in (from + 1)..(from + n) : picks[k] = address})

\* every backend has its share in the window of picks that starts at from
FairWindow(backends, picks, from, gcdW) ==
    \A i \in DOMAIN backends :
        TimesChosen(picks, from, SumWeights(backends) \div gcdW, backends[i].address)
            = backends[i].weight \div gcdW

WrrFair(backends, picks) ==
    LET gcdW == GcdOfPositive(backends, 1, 0)
    IN  gcdW > 0 =>
            /\ \A from \in 0..Len(picks) :
                   from + (SumWeights(backends) \div gcdW) <= Len(picks) =>
                       FairWindow(backends, picks, from, gcdW)
            /\ \A i \in DOMAIN backends, k \in DOMAIN picks :
                   backends[i].weight = 0 => picks[k] # backends[i].address

\* C19: when some backend has a positive weight, in every window of
\* sum(weights)/gcd consecutive ChooseBackend calls after a rebuild backend i
\* is chosen exactly weight_i/gcd times, and a backend of weight zero is
\* never chosen.
C19_WrrFairness == WrrFair(sel_backends, sel_picks)

\* the same for weights below 2^31
C19_WrrFairnessSmallWeights == sel_unit = 1 => WrrFair(sel_backends, sel_picks)

(***************************************************************************)
(* C20                                                                     *)
(***************************************************************************)
NoPositiveWeight(backends) == \A i \in DOMAIN backends : backends[i].weight = 0

MaxActive == 2
HugeBias == 64

CheckIfWeightsAreEqual(backends) ==
    IF Len(backends) <= 1
    THEN TRUE
    ELSE \A i \in 2..Len(backends) : backends[i].weight = backends[1].weight

LrResult(ok, backends, i1, i2, c) ==
    [ok |-> ok, chosen |-> IF c = 0 THEN Null ELSE backends[c].address,
     idx1 |-> i1, idx2 |-> i2, chosenIdx |-> c, randomPick |-> Never]

\* a comparison of the two candidates that keeps the busier one
LowerRequests_PicksHigher(requests1, requests2, idx1, idx2) ==
    IF requests1 < requests2 THEN {idx2}
    ELSE IF requests2 < requests1 THEN {idx1} ELSE {idx1, idx2}

\* requests1 < requests2, requests2 < requests1, or GetValue() < 0.5
LowerRequests(requests1, requests2, idx1, idx2) ==
    IF requests1 < requests2 THEN {idx1}
    ELSE IF requests2 < requests1 THEN {idx2} ELSE {idx1, idx2}

\* the power of two choices once idx1 and idx2 are drawn; idx2 = idx1 when
\* all ten redraws collided
LrTwoChoices(backends, idx1, idx2) ==
    IF idx1 = idx2
    THEN {LrResult(TRUE, backends, idx1, idx2, idx1)}
    ELSE {LrResult(TRUE, backends, idx1, idx2, c) :
             c \in LowerRequests(backends[idx1].activeRequests,
                                 backends[idx2].activeRequests, idx1, idx2)}

\* the branch for unequal weights: the indices of positive weight
EligibleIndices(backends) == {i \in DOMAIN backends : backends[i].weight > 0}

\* the values of the attribute ActiveRequestBias: none, the default, and one
\* so large that the denominator of a busy backend exceeds 2^64
Biases == {0, 1, HugeBias}

RECURSIVE Factorial(_)
Factorial(n) == IF n = 0 THEN 1 ELSE n * Factorial(n - 1)

RECURSIVE Pow(_, _)
Pow(b, e) == IF e = 0 THEN 1 ELSE b * Pow(b, e - 1)

\* effective weights are counted in units of 1/EffScale, which every
\* denominator (activeRequests + 1)^bias of bias 0 or 1 divides
EffScale == Factorial(MaxActive + 1)

\* weight / pow(activeRequests + 1, bias).  With the huge bias the quotient
\* of a busy backend is below 2^-64 * weight: it is positive, the sum of a
\* few of them stays below epsilon, and added to a weight of an idle backend
\* it is absorbed by the rounding of the double; it counts as no unit.
EffectiveWeight(backend, bias) ==
    IF bias >= HugeBias
    THEN IF backend.activeRequests = 0 THEN backend.weight * EffScale ELSE 0
    ELSE (backend.weight * EffScale) \div Pow(backend.activeRequests + 1, bias)

\* backendEffectiveWeights: 0.0 for the backends that were skipped
BackendEffectiveWeights(backends, bias) ==
    [i \in DOMAIN backends |->
        IF backends[i].weight = 0 THEN 0 ELSE EffectiveWeight(backends[i], bias)]

\* currentSum after the eligible indices up to i
CurrentSum(effectiveWeights, eligibleIndices, i) ==
    SumOver(effectiveWeights, {j \in eligibleIndices : j <= i})

\* a pick that ignores the draw and takes the last eligible index
WeightedPick_Last(effectiveWeights, eligibleIndices, randomPick) ==
    CHOOSE i \in eligibleIndices : \A j \in eligibleIndices : j <= i

\* the loop over eligibleIndices: the first one with randomPick <= currentSum,
\* and eligibleIndices.back() when the loop ends without a pick
WeightedPick(effectiveWeights, eligibleIndices, randomPick) ==
    LET reached == {i \in eligibleIndices :
                       randomPick <= CurrentSum(effectiveWeights, eligibleIndices, i)}
    IN  IF reached # {} THEN MinOf(reached)
        ELSE CHOOSE i \in eligibleIndices : \A j \in eligibleIndices : j <= i

\* the branch for unequal weights; GetValue(0.0, totalEffectiveWeight) draws
\* from [0, totalEffectiveWeight)
LrWeighted(backends, bias) ==
    LET eligibleIndices == EligibleIndices(backends)
        backendEffectiveWeights == BackendEffectiveWeights(backends, bias)
        totalEffectiveWeight == SumOver(backendEffectiveWeights, eligibleIndices)
    IN  IF eligibleIndices = {}
        THEN {LrResult(FALSE, backends, 0, 0, 0)}
        ELSE IF totalEffectiveWeight = 0
        THEN IF Cardinality(eligibleIndices) = 1
             THEN {LrResult(TRUE, backends, i, i, i) : i \in eligibleIndices}
             ELSE UNION {LrTwoChoices(backends, actualIdx1, actualIdx2) :
                            actualIdx1 \in eligibleIndices, actualIdx2 \in eligibleIndices}
        ELSE {[LrResult(TRUE, backends, 0, 0,
                        WeightedPick(backendEffectiveWeights, eligibleIndices, randomPick))
                  EXCEPT !.randomPick = randomPick] :
                 randomPick \in 0..(totalEffectiveWeight - 1)}

LrChoose(backends, weightsAreEqual, bias) ==
    IF backends = <<>>
    THEN {LrResult(FALSE, backends, 0, 0, 0)}
    ELSE IF weightsAreEqual
    THEN IF Len(backends) = 1
         THEN {LrResult(TRUE, backends, 1, 1, 1)}
         ELSE UNION {LrTwoChoices(backends, idx1, idx2) :
                        idx1 \in DOMAIN backends, idx2 \in DOMAIN backends}
    ELSE LrWeighted(backends, bias)

LrSetBackends(backends) ==
    /\ sel_backends' = BaseSetBackends(backends)
    /\ m_weightsAreEqual' = CheckIfWeightsAreEqual(sel_backends')
    /\ sel_last' = SelOp("SetBackends", Null)
    /\ UNCHANGED <<sel_now, m_activeRequestBias, ewmaVars, wrrVars, hashVars, coreVars, frameVars, mainVars>>

LrAddBackend(backendAddress, weight) ==
    /\ sel_backends' = BaseAddBackend(sel_backends, backendAddress, weight)
    /\ m_weightsAreEqual' = CheckIfWeightsAreEqual(sel_backends')
    /\ sel_last' = SelOp("AddBackend", backendAddress)
    /\ UNCHANGED <<sel_now, m_activeRequestBias, ewmaVars, wrrVars, hashVars, coreVars, frameVars, mainVars>>

LrChooseBackend ==
    /\ \E r \in LrChoose(sel_backends, m_weightsAreEqual, m_activeRequestBias) :
          sel_last' = [op |-> "ChooseBackend", address |-> r.chosen, ok |-> r.ok,
                       idx1 |-> r.idx1, idx2 |-> r.idx2, chosenIdx |-> r.chosenIdx,
                       randomPick |-> r.randomPick]
    /\ UNCHANGED <<sel_now, sel_backends, ewmaVars, wrrVars, lrVars, hashVars,
                   coreVars, frameVars, mainVars>>

LrNotifyRequestSent(backendAddress) ==
    /\ LET i == FindBackendInfo(sel_backends, backendAddress)
       IN  /\ i # 0 => sel_backends[i].activeRequests < MaxActive
           /\ sel_backends' = IF i # 0
                              THEN [sel_backends EXCEPT ![i].activeRequests = @ + 1]
                              ELSE sel_backends
    /\ sel_last' = SelOp("NotifyRequestSent", backendAddress)
    /\ UNCHANGED <<sel_now, ewmaVars, wrrVars, lrVars, hashVars, coreVars, frameVars, mainVars>>

LrNotifyRequestFinished(backendAddress) ==
    /\ LET i == FindBackendInfo(sel_backends, backendAddress)
       IN  sel_backends' = IF i # 0
                           THEN [sel_backends EXCEPT ![i].activeRequests = DecrementFloor(@)]
                           ELSE sel_backends
    /\ sel_last' = SelOp("NotifyRequestFinished", backendAddress)
    /\ UNCHANGED <<sel_now, ewmaVars, wrrVars, lrVars, hashVars, coreVars, frameVars, mainVars>>

\* SetAttribute("ActiveRequestBias", DoubleValue(bias))
LrSetActiveRequestBias(bias) ==
    /\ m_activeRequestBias' = bias
    /\ sel_last' = SelOp("SetAttribute", Null)
    /\ UNCHANGED <<sel_now, sel_backends, m_weightsAreEqual, ewmaVars, wrrVars, hashVars,
                   coreVars, frameVars, mainVars>>

LrNext ==
    \/ \E weights \in WrrBackendLists(1) : LrSetBackends(WithAddresses(weights))
    \/ \E a \in SelAddrs, w \in Weights(1) : LrAddBackend(a, w)
    \/ \E bias \in Biases : LrSetActiveRequestBias(bias)
    \/ LrChooseBackend
    \/ \E a \in SelAddrs : LrNotifyRequestSent(a)
    \/ \E a \in SelAddrs : LrNotifyRequestFinished(a)

LrInit == Init /\ algo = "LeastRequest"

LrSpec == LrInit /\ [][LrNext]_vars

\* C21: with all weights equal and at least two backends, ChooseBackend
\* succeeds with one of two drawn indices of the list (the single pick when
\* the redraws all collided), and the backend it returns never has strictly
\* more active requests than the other candidate; on a tie either candidate
\* may be returned.
C21_FewerActiveRequests ==
    [][(sel_last'.op = "ChooseBackend" /\ m_weightsAreEqual /\ Len(sel_backends) >= 2)
       => /\ sel_last'.ok
          /\ sel_last'.idx1 \in DOMAIN sel_backends
          /\ sel_last'.idx2 \in DOMAIN sel_backends
          /\ sel_last'.chosenIdx \in {sel_last'.idx1, sel_last'.idx2}
          /\ sel_last'.idx1 = sel_last'.idx2 => sel_last'.chosenIdx = sel_last'.idx1
          /\ sel_last'.address = sel_backends[sel_last'.chosenIdx].address
          /\ sel_backends[sel_last'.chosenIdx].activeRequests
                <= sel_backends[sel_last'.idx1].activeRequests
          /\ sel_backends[sel_last'.chosenIdx].activeRequests
                <= sel_backends[sel_last'.idx2].activeRequests]_vars

\* the second candidate had fewer active requests and was returned
C21_Witness ==
    /\ sel_last.op = "ChooseBackend"
    /\ m_weightsAreEqual /\ Len(sel_backends) >= 2
    /\ sel_last.idx1 # sel_last.idx2
    /\ sel_backends[sel_last.idx2].activeRequests
          < sel_backends[sel_last.idx1].activeRequests
    /\ sel_last.chosenIdx = sel_last.idx2

(***************************************************************************)
(* Strings and std::hash<std::string>.  A string is the sequence of its    *)
(* characters: the digits are 0..9, '_' and the word "skip" are one        *)
(* character each, and the printed form of the address of backend a is the *)
(* single character AddrChar + a.  The hash function is implementation     *)
(* defined; it is one of NumHashers multiplicative hashes over the         *)
(* characters, with values in 0..HashSpace-1 in place of 64 bits.          *)
(***************************************************************************)
NumHashers == 3
HashSpace == 16
MaxId == 1
Underscore == 10
SkipChar == 11
AddrChar == 12

Hashers == 1..NumHashers
\* request identifiers of one and of two decimal digits
L7Ids == (0..MaxId) \cup {10 + n : n \in 0..MaxId}

\* std::to_string of an unsigned integer
RECURSIVE to_string(_)
to_string(n) == IF n < 10 THEN <<n>> ELSE to_string(n \div 10) \o <<n % 10>>

\* operator<< of an InetSocketAddress
AddressString(address) == <<AddrChar + address>>

RECURSIVE HashFrom(_, _, _)
HashFrom(h, str, k) ==
    IF str = <<>>
    THEN h
    ELSE HashFrom(((h + 1) * (Head(str) + 2 * k + 1) + Head(str) * Head(str)) % HashSpace,
                  Tail(str), k)

\* m_hasher(str) of the hash function k
Hasher(str, k) == HashFrom(k, str, k)

(***************************************************************************)
(* The Ring Hash selector on its own (src/unnamed/part_004:211-450).       *)
(* DefaultHashesPerHost is 100 in the source and MaxRing stands for the    *)
(* range of the MinRingSize and MaxRingSize attributes, whose checker      *)
(* admits values from 1.                                                   *)
(***************************************************************************)
DefaultHashesPerHost == 1
MaxRing == 3
NumHashAddrs == 3

HashAddrs == 1..NumHashAddrs

PositiveWeights(backends) == {i \in DOMAIN backends : backends[i].weight > 0}

TotalWeight(backends) ==
    SumOver([i \in DOMAIN backends |-> backends[i].weight], PositiveWeights(backends))

\* std::min(m_maxRingSize, std::max(m_minRingSize, desiredHashes))
TargetTotalHashes(backends, minRing, maxRing) ==
    LET desiredHashes == Cardinality(PositiveWeights(backends)) * DefaultHashesPerHost
        atLeast == IF minRing > desiredHashes THEN minRing ELSE desiredHashes
    IN  IF maxRing < atLeast THEN maxRing ELSE atLeast

\* the rounded share without the minimum of one virtual node
NumHashesForThisHost_NoMinimum(target, weight, totalWeight) ==
    (2 * target * weight + totalWeight) \div (2 * totalWeight)

\* std::max(1, std::round(targetTotalHashes * weight / totalWeight))
NumHashesForThisHost(target, weight, totalWeight) ==
    Max(1, (2 * target * weight + totalWeight) \div (2 * totalWeight))

VirtualNodeKey(address, i) == AddressString(address) \o <<Underscore>> \o to_string(i)

\* the inner loop: insert_or_assign of the virtual nodes i..num-1 of a host
RECURSIVE InsertNodes(_, _, _, _, _)
InsertNodes(ring, address, i, num, k) ==
    IF i >= num
    THEN ring
    ELSE InsertNodes(Put(ring, Hasher(VirtualNodeKey(address, i), k), address),
                     address, i + 1, num, k)

\* the outer loop over m_backends from position b
RECURSIVE InsertHosts(_, _, _, _, _, _)
InsertHosts(ring, backends, b, target, totalWeight, k) ==
    IF b > Len(backends)
    THEN ring
    ELSE IF backends[b].weight = 0
    THEN InsertHosts(ring, backends, b + 1, target, totalWeight, k)
    ELSE InsertHosts(InsertNodes(ring, backends[b].address, 0,
                                 NumHashesForThisHost(target, backends[b].weight,
                                                      totalWeight), k),
                     backends, b + 1, target, totalWeight, k)

\* the ring and the minimum ring size after RecalculateRing
RecalculateRing(backends, minRing, maxRing, k) ==
    IF backends = <<>>
    THEN [m_ring |-> EmptyMap, m_minRingSize |-> minRing]
    ELSE LET adjusted == IF minRing > maxRing THEN maxRing ELSE minRing
             target == TargetTotalHashes(backends, adjusted, maxRing)
         IN  IF PositiveWeights(backends) = {}
             THEN [m_ring |-> EmptyMap, m_minRingSize |-> adjusted]
             ELSE [m_ring |-> InsertHosts(EmptyMap, backends, 1, target,
                                          TotalWeight(backends), k),
                   m_minRingSize |-> adjusted]

\* m_ring.lower_bound(requestHash), wrapping to m_ring.begin()
LowerBoundWrap_NoWrap(ring, requestHash) ==
    LET above == {key \in DOMAIN ring : key >= requestHash}
    IN  IF above = {} THEN Null ELSE ring[MinOf(above)]

LowerBoundWrap(ring, requestHash) ==
    LET above == {key \in DOMAIN ring : key >= requestHash}
    IN  IF above = {} THEN ring[MinOf(DOMAIN ring)] ELSE ring[MinOf(above)]

RingResult(ok, address) == [ok |-> ok, chosen |-> address]

\* ChooseBackend; Simulator::GetContext() may select any eligible index
RingChoose(ring, backends, l7Identifier, k) ==
    IF DOMAIN ring = {}
    THEN IF PositiveWeights(backends) # {}
         THEN {RingResult(TRUE, backends[i].address) : i \in PositiveWeights(backends)}
         ELSE {RingResult(FALSE, Null)}
    ELSE {RingResult(TRUE, LowerBoundWrap(ring, Hasher(to_string(l7Identifier), k)))}

RingRebuilt(backends) ==
    LET r == RecalculateRing(backends, m_minRingSize, m_maxRingSize, sel_hasher)
    IN  /\ sel_backends' = backends
        /\ m_ring' = r.m_ring
        /\ m_minRingSize' = r.m_minRingSize

RingSetBackends(backends) ==
    /\ RingRebuilt(BaseSetBackends(backends))
    /\ sel_last' = SelOp("SetBackends", Null)
    /\ UNCHANGED <<sel_now, sel_hasher, m_maxRingSize, m_tableSize, m_tableBuilt,
                   m_lookupTable, sel_fault, ewmaVars, wrrVars, lrVars, coreVars, frameVars, mainVars>>

RingAddBackend(backendAddress, weight) ==
    /\ RingRebuilt(BaseAddBackend(sel_backends, backendAddress, weight))
    /\ sel_last' = SelOp("AddBackend", backendAddress)
    /\ UNCHANGED <<sel_now, sel_hasher, m_maxRingSize, m_tableSize, m_tableBuilt,
                   m_lookupTable, sel_fault, ewmaVars, wrrVars, lrVars, coreVars, frameVars, mainVars>>

RingChooseBackend(l7Identifier) ==
    /\ \E r \in RingChoose(m_ring, sel_backends, l7Identifier, sel_hasher) :
          sel_last' = [op |-> "ChooseBackend", address |-> r.chosen, ok |-> r.ok,
                       l7Identifier |-> l7Identifier]
    /\ UNCHANGED <<sel_now, sel_backends, ewmaVars, wrrVars, lrVars, hashVars,
                   coreVars, frameVars, mainVars>>

\* the weights of the backends of the hashing selectors
HashWeights == 0..2

HashBackendLists == UNION {[1..n -> HashWeights] : n \in 0..NumHashAddrs}

RingInit ==
    /\ CoreInit /\ algo = "PeakEWMA" /\ FrameIdle /\ SelConstructed /\ sel_unit = 1
    /\ sel_hasher \in Hashers
    /\ m_minRingSize \in 1..MaxRing
    /\ m_maxRingSize \in 1..MaxRing
    /\ m_tableSize = 1
    /\ MainIdle

RingNext ==
    \/ \E weights \in HashBackendLists : RingSetBackends(WithAddresses(weights))
    \/ \E a \in HashAddrs, w \in HashWeights : RingAddBackend(a, w)
    \/ \E id \in L7Ids : RingChooseBackend(id)

RingSpec == RingInit /\ [][RingNext]_vars

\* the backend a request identifier is mapped to by the ring alone
RingLookup(ring, l7Identifier, k) == LowerBoundWrap(ring, Hasher(to_string(l7Identifier), k))

\* C22: on a non-empty ring ChooseBackend(l7_id) succeeds with the address
\* stored at the smallest ring key that is at least hash(decimal string of
\* l7_id), or at the smallest key of the ring when the hash exceeds every
\* key; the call leaves the ring and the backends as they were, so the same
\* l7_id keeps its backend whatever was asked before.
C22_RingLowerBound ==
    [][(sel_last'.op = "ChooseBackend" /\ DOMAIN m_ring # {})
       => LET h == Hasher(to_string(sel_last'.l7Identifier), sel_hasher)
          IN  /\ sel_last'.ok
              /\ \E key \in DOMAIN m_ring :
                    /\ sel_last'.address = m_ring[key]
                    /\ \/ key >= h /\ \A other \in DOMAIN m_ring : other >= h => key <= other
                       \/ \A other \in DOMAIN m_ring : other < h /\ key <= other
              /\ m_ring' = m_ring
              /\ sel_backends' = sel_backends]_vars

\* a two-digit identifier whose hash exceeds every key of a ring of two
\* backends, mapped to the first entry
C22_Witness ==
    /\ sel_last.op = "ChooseBackend"
    /\ sel_last.l7Identifier >= 10
    /\ Cardinality({m_ring[key] : key \in DOMAIN m_ring}) >= 2
    /\ \A key \in DOMAIN m_ring : key < Hasher(to_string(sel_last.l7Identifier), sel_hasher)
    /\ sel_last.address = m_ring[MinOf(DOMAIN m_ring)]

\* AddBackend of an address of positive weight that the list did not hold
AddsOneBackend ==
    /\ sel_last'.op = "AddBackend"
    /\ sel_last'.address \notin AddressesOf(sel_backends)
    /\ Len(sel_backends') = Len(sel_backends) + 1
    /\ DOMAIN m_ring # {} /\ DOMAIN m_ring' # {}

RingMovesOnlyToAdded ==
    \A id \in L7Ids :
        RingLookup(m_ring', id, sel_hasher)
            \in {RingLookup(m_ring, id, sel_hasher), sel_last'.address}

\* C23: when one backend is added to the backend set, an l7_id either keeps
\* the backend it was mapped to or moves to the added backend.
C23_RingConsistency == [][AddsOneBackend => RingMovesOnlyToAdded]_vars

\* the number of virtual nodes RecalculateRing gives to the backend at i
NodesOf(backends, i, minRing, maxRing) ==
    NumHashesForThisHost(TargetTotalHashes(backends,
                                           IF minRing > maxRing THEN maxRing ELSE minRing,
                                           maxRing),
                         backends[i].weight, TotalWeight(backends))

\* the consistency of C23 restricted to additions that leave every earlier
\* backend with the number of virtual nodes it had
C23_RingConsistencyWhenNodesKept ==
    [][(AddsOneBackend
        /\ \A i \in PositiveWeights(sel_backends) :
              NodesOf(sel_backends', i, m_minRingSize, m_maxRingSize)
                 = NodesOf(sel_backends, i, m_minRingSize, m_maxRingSize))
       => RingMovesOnlyToAdded]_vars

(***************************************************************************)
(* The Maglev selector on its own (src/unnamed/part_001:783-1060).         *)
(* m_tableSize is an attribute whose checker admits values from 1.  With   *)
(* m_tableSize = 1 the skip is a remainder by zero, after which the        *)
(* process either stops or goes on with some skip; every skip visits the   *)
(* single slot.  A backend whose permutation has no free slot left keeps   *)
(* BuildTable in its inner loop for ever.                                  *)
(***************************************************************************)
MaxTable == 5

\* the build entry of a backend: offset and skip from the hashes of its keys
BuildEntries(backend, T, k) ==
    LET keyBase == AddressString(backend.address)
        keySkip == keyBase \o <<Underscore, SkipChar>>
        entry == [address |-> backend.address, weight |-> backend.weight,
                  offset |-> Hasher(keyBase, k) % T,
                  skip |-> IF T = 1 THEN 1 ELSE (Hasher(keySkip, k) % (T - 1)) + 1,
                  nextIndexInPermutation |-> 0, targetWeightScore |-> 0]
    IN  entry

\* MaglevBuildEntry::operator<
EntryLess(a, b) ==
    IF a.offset # b.offset THEN a.offset < b.offset
    ELSE IF a.skip # b.skip THEN a.skip < b.skip
    ELSE a.address < b.address

\* std::sort of the build entries
RECURSIVE SortEntries(_)
SortEntries(S) ==
    IF S = {}
    THEN <<>>
    ELSE LET first == CHOOSE a \in S : \A b \in S \ {a} : EntryLess(a, b)
         IN  <<first>> \o SortEntries(S \ {first})

\* an iteration that never leaves the first entry
NextEntry_Stays(e) == e

\* for (auto& entry : buildEntries)
NextEntry(e) == e + 1

BuildResult(built, table, fault) ==
    [m_tableBuilt |-> built, m_lookupTable |-> table, fault |-> fault]

\* the filling loop from entry e of pass currentPass on
RECURSIVE Fill(_, _, _, _, _, _, _)
Fill(entries, table, filledSlotsCount, currentPass, e, T, maxWeight) ==
    IF filledSlotsCount = T
    THEN BuildResult(TRUE, table, "none")
    ELSE IF e > Len(entries)
    THEN IF currentPass + 1 > T * 2
         THEN BuildResult(FALSE, <<>>, "none")
         ELSE Fill(entries, table, filledSlotsCount, currentPass + 1, 1, T, maxWeight)
    ELSE IF currentPass * entries[e].weight < entries[e].targetWeightScore
    THEN Fill(entries, table, filledSlotsCount, currentPass, NextEntry(e), T, maxWeight)
    ELSE LET entry == entries[e]
             Slot(j) == ((entry.offset + entry.skip * j) % T) + 1
             free == {j \in entry.nextIndexInPermutation
                               .. entry.nextIndexInPermutation + T - 1 :
                         table[Slot(j)] = Null}
         IN  IF free = {}
             THEN BuildResult(FALSE, table, "hang")
             ELSE Fill([entries EXCEPT
                           ![e].nextIndexInPermutation = MinOf(free) + 1,
                           ![e].targetWeightScore = @ + maxWeight],
                       [table EXCEPT ![Slot(MinOf(free))] = entry.address],
                       filledSlotsCount + 1, currentPass, NextEntry(e), T, maxWeight)

\* the outcomes of BuildTable
BuildTable(backends, T, k) ==
    IF backends = <<>> \/ T = 0 \/ PositiveWeights(backends) = {}
    THEN {BuildResult(FALSE, <<>>, "none")}
    ELSE LET entries == SortEntries({BuildEntries(backends[i], T, k) :
                                        i \in PositiveWeights(backends)})
             maxWeight == MaxOfPositive(backends, 1, 0)
         IN  {Fill(entries, [slot \in 1..T |-> Null], 0, 1, 1, T, maxWeight)}
                \cup (IF T = 1 THEN {BuildResult(FALSE, <<>>, "division by zero")} ELSE {})

\* a lookup that ignores the hash of the identifier
TableIndex_First(requestHash, T) == 0

\* requestHash % m_tableSize
TableIndex(requestHash, T) == requestHash % T

\* ChooseBackend; Simulator::GetContext() may select any eligible index
MaglevChoose(table, built, backends, T, l7Identifier, k) ==
    IF ~built \/ table = <<>>
    THEN IF PositiveWeights(backends) # {}
         THEN {RingResult(TRUE, backends[i].address) : i \in PositiveWeights(backends)}
         ELSE {RingResult(FALSE, Null)}
    ELSE LET chosen == table[TableIndex(Hasher(to_string(l7Identifier), k), T) + 1]
         IN  {RingResult(chosen # Null, chosen)}

MaglevRebuilt(backends) ==
    \E r \in BuildTable(backends, m_tableSize, sel_hasher) :
        /\ sel_backends' = backends
        /\ m_tableBuilt' = r.m_tableBuilt
        /\ m_lookupTable' = r.m_lookupTable
        /\ sel_fault' = r.fault

MaglevSetBackends(backends) ==
    /\ sel_fault = "none"
    /\ MaglevRebuilt(BaseSetBackends(backends))
    /\ sel_last' = SelOp("SetBackends", Null)
    /\ UNCHANGED <<sel_now, sel_hasher, m_minRingSize, m_maxRingSize, m_ring, m_tableSize,
                   ewmaVars, wrrVars, lrVars, coreVars, frameVars, mainVars>>

MaglevAddBackend(backendAddress, weight) ==
    /\ sel_fault = "none"
    /\ MaglevRebuilt(BaseAddBackend(sel_backends, backendAddress, weight))
    /\ sel_last' = SelOp("AddBackend", backendAddress)
    /\ UNCHANGED <<sel_now, sel_hasher, m_minRingSize, m_maxRingSize, m_ring, m_tableSize,
                   ewmaVars, wrrVars, lrVars, coreVars, frameVars, mainVars>>

MaglevChooseBackend(l7Identifier) ==
    /\ sel_fault = "none"
    /\ \E r \in MaglevChoose(m_lookupTable, m_tableBuilt, sel_backends, m_tableSize,
                             l7Identifier, sel_hasher) :
          sel_last' = [op |-> "ChooseBackend", address |-> r.chosen, ok |-> r.ok,
                       l7Identifier |-> l7Identifier]
    /\ UNCHANGED <<sel_now, sel_backends, ewmaVars, wrrVars, lrVars, hashVars,
                   coreVars, frameVars, mainVars>>

MaglevInit ==
    /\ CoreInit /\ algo = "PeakEWMA" /\ FrameIdle /\ SelConstructed /\ sel_unit = 1
    /\ sel_hasher \in Hashers
    /\ m_minRingSize = 1 /\ m_maxRingSize = 1
    /\ m_tableSize \in 1..MaxTable
    /\ MainIdle

MaglevNext ==
    \/ \E weights \in HashBackendLists : MaglevSetBackends(WithAddresses(weights))
    \/ \E a \in HashAddrs, w \in HashWeights : MaglevAddBackend(a, w)
    \/ \E id \in L7Ids : MaglevChooseBackend(id)

MaglevSpec == MaglevInit /\ [][MaglevNext]_vars

\* the number of slots of the lookup table that hold an address
SlotsOf(table, address) == Cardinality({slot \in DOMAIN table : table[slot] = address})

PositiveAddresses(backends) == {backends[i].address : i \in PositiveWeights(backends)}

EqualPositiveWeights(backends) ==
    \A i, j \in PositiveWeights(backends) : backends[i].weight = backends[j].weight

\* C24: when all backends of positive weight have the same weight, after a
\* successful table build the slot counts of any two of them differ by at
\* most one.
C24_MaglevBalance ==
    (m_tableBuilt /\ EqualPositiveWeights(sel_backends))
    => \A a, b \in PositiveAddresses(sel_backends) :
          SlotsOf(m_lookupTable, a) - SlotsOf(m_lookupTable, b) <= 1

\* three backends of equal weight share a table of five slots
C24_Witness ==
    /\ m_tableBuilt
    /\ m_tableSize = 5
    /\ Cardinality(PositiveAddresses(sel_backends)) = 3
    /\ EqualPositiveWeights(sel_backends)
    /\ \E a, b \in PositiveAddresses(sel_backends) :
          SlotsOf(m_lookupTable, a) = SlotsOf(m_lookupTable, b) + 1

MaglevBuildHangs == sel_fault = "hang"

(***************************************************************************)
(* main (src/load-balancer-simulation/utils.h:247-547): the command line,  *)
(* the choice of the selector class, the backends and the start of the     *)
(* application.  The attributes MinRingSize, MaxRingSize and TableSize are *)
(* given as defaults on the command line; a value their checkers reject    *)
(* ends the program while the command line is parsed.                      *)
(***************************************************************************)
Algorithms == {"WRR", "LR", "Random", "RingHash", "Maglev", "PeakEWMA"}

CommandLines ==
    [lbAlgorithm : Algorithms \cup {"Bogus"},
     MinRingSize : 0..MaxRing, MaxRingSize : 0..MaxRing, TableSize : {0, 1, MaxTable}]

\* MakeUintegerChecker<uint64_t>(1) of the three attributes
CheckersAccept(args) ==
    args.MinRingSize >= 1 /\ args.MaxRingSize >= 1 /\ args.TableSize >= 1

\* cmd.Parse(argc, argv)
MainParse ==
    /\ main_pc = "parse"
    /\ main_pc' = IF CheckersAccept(main_args) THEN "parsed" ELSE "fatal"
    /\ UNCHANGED <<main_args, coreVars, frameVars, selVars>>

\* the dispatch on lbAlgorithm and lbFactory.Create
MainCreate ==
    /\ main_pc = "parsed"
    /\ IF main_args.lbAlgorithm \in Algorithms
       THEN /\ main_pc' = "created"
            /\ m_minRingSize' = main_args.MinRingSize
            /\ m_maxRingSize' = main_args.MaxRingSize
            /\ m_tableSize' = main_args.TableSize
       ELSE /\ main_pc' = "fatal"
            /\ UNCHANGED <<m_minRingSize, m_maxRingSize, m_tableSize>>
    /\ UNCHANGED <<main_args, sel_now, sel_backends, sel_last, sel_hasher, m_ring,
                   m_tableBuilt, m_lookupTable, sel_fault, ewmaVars, wrrVars, lrVars,
                   coreVars, frameVars>>

\* lbApp->AddBackend(backendAddr, serverWeights[i]) of the next server
MainAddBackend(weight) ==
    /\ main_pc = "created" /\ phase = "constructed" /\ sel_fault = "none"
    /\ Len(sel_backends) < NumHashAddrs
    /\ LET backendAddr == Len(sel_backends) + 1
       IN  \/ main_args.lbAlgorithm = "WRR" /\ WrrAddBackend(backendAddr, weight)
           \/ main_args.lbAlgorithm = "LR" /\ LrAddBackend(backendAddr, weight)
           \/ main_args.lbAlgorithm = "RingHash" /\ RingAddBackend(backendAddr, weight)
           \/ main_args.lbAlgorithm = "Maglev" /\ MaglevAddBackend(backendAddr, weight)
           \/ main_args.lbAlgorithm = "PeakEWMA" /\ PeakEwmaAddBackend(backendAddr)
           \/ /\ main_args.lbAlgorithm = "Random"
              /\ sel_backends' = BaseAddBackend(sel_backends, backendAddr, weight)
              /\ sel_last' = SelOp("AddBackend", backendAddr)
              /\ UNCHANGED <<sel_now, ewmaVars, wrrVars, lrVars, hashVars, coreVars,
                             frameVars, mainVars>>

\* Simulator::Run() reaches the start time of the application
MainRun ==
    /\ main_pc = "created" /\ sel_fault = "none"
    /\ StartApplication

MainInit ==
    /\ CoreInit /\ algo = "PeakEWMA" /\ FrameIdle /\ SelConstructed /\ sel_unit = 1 /\ HashIdle
    /\ main_args \in CommandLines
    /\ main_pc = "parse"

MainNext ==
    \/ MainParse
    \/ MainCreate
    \/ \E w \in HashWeights : MainAddBackend(w)
    \/ MainRun

MainSpec == MainInit /\ [][MainNext]_vars

\* the configuration faults of the command line
InvalidName(args) == args.lbAlgorithm \notin Algorithms

NonPositiveSize(args) ==
    args.TableSize <= 0 \/ args.MinRingSize <= 0 \/ args.MaxRingSize <= 0

MinAboveMax(args) ==
    args.lbAlgorithm = "RingHash" /\ args.MinRingSize > args.MaxRingSize

NothingBroughtUp ==
    /\ m_ring = EmptyMap
    /\ ~m_tableBuilt
    /\ sel_backends = <<>>
    /\ phase = "constructed"
    /\ ~m_listeningSocket

\* C26: from a command line with an invalid selector name, a non-positive
\* table or ring size, or a Ring Hash minimum ring size above the maximum,
\* no selector state is built and the application is never started.
C26_ConfigurationFaultIsFatal ==
    (InvalidName(main_args) \/ NonPositiveSize(main_args) \/ MinAboveMax(main_args))
    => NothingBroughtUp

\* the part of C26 about the selector name and the sizes below one
C26_NameAndSizeFaultsAreFatal ==
    (InvalidName(main_args) \/ NonPositiveSize(main_args))
    => NothingBroughtUp /\ main_pc \in {"parse", "parsed", "fatal"}

\* the program has refused a command line
MainRefused == main_pc = "fatal" /\ InvalidName(main_args)

(***************************************************************************)
(* Pending backend connects of the application (Spec)                      *)
(***************************************************************************)
\* the request a pending record stands for
PendingRequest(b) ==
    <<m_pendingBackendRequests[b].clientSocket,
      Deserialize(m_pendingBackendRequests[b].requestPacket).seq>>

\* the pending records a client close, client error or stop has to settle
SettledBy(op) ==
    {b \in DOMAIN m_pendingBackendRequests :
        op.op = "StopApplication" \/ m_pendingBackendRequests[b].clientSocket = op.sock}

ClientGone(op) == op.op \in {"HandleClientClose", "HandleClientError", "StopApplication"}

\* backend socket b is named by no map of the next state
InNoMapNext(b) ==
    /\ b \notin DOMAIN m_pendingBackendRequests'
    /\ b \notin DOMAIN m_backendClientMap'
    /\ b \notin DOMAIN m_backendRxBuffers'
    /\ \A k \in DOMAIN m_requestSendTimes' : k[1] # b
    /\ \A c \in DOMAIN m_clientBackendSockets' :
           b \notin MappedSockets(m_clientBackendSockets', c)

\* C27: when a client closes or errors, or the application is stopped, while
\* the connect of a backend socket for one of the client's requests is
\* pending, NotifyRequestFinished is issued exactly once for that request
\* and its chosen backend, and the pending record and the backend socket
\* leave every map.
C27_PendingSettledOnClientGone ==
    [][ClientGone(lastOp') =>
         \A b \in SettledBy(lastOp') :
             /\ reqNotes'[PendingRequest(b)].fin = reqNotes[PendingRequest(b)].fin + 1
             /\ finCalls'[m_pendingBackendRequests[b].targetBackendAddress]
                   > finCalls[m_pendingBackendRequests[b].targetBackendAddress]
             /\ InNoMapNext(b)]_vars

\* the part of C27 about the maps
C27_PendingRemovedOnClientGone ==
    [][ClientGone(lastOp') => \A b \in SettledBy(lastOp') : InNoMapNext(b)]_vars

\* C28: HandleBackendConnectFail of socket b consumes b's pending record,
\* issues NotifyRequestFinished exactly once for the pending request, with
\* the address the connect was meant for, removes b from the client's backend
\* map, from the backend-to-client map and from every other map, and leaves
\* the originating client socket, its rx buffer and its backend-map entry in
\* place.
C28_ConnectFailSettlesPending ==
    [][lastOp'.op = "HandleBackendConnectFail" =>
         /\ \A r \in ReqIds :
                reqNotes'[r].fin =
                    reqNotes[r].fin + (IF r \in RequestsOn(lastOp'.sock) THEN 1 ELSE 0)
         /\ \A a \in Addrs :
                finCalls'[a] =
                    finCalls[a] + (IF a = backendSock[lastOp'.sock].peer
                                   THEN Cardinality(RequestsOn(lastOp'.sock)) ELSE 0)
         /\ lastOp'.sock \in DOMAIN m_pendingBackendRequests =>
                m_pendingBackendRequests[lastOp'.sock].targetBackendAddress
                    = backendSock[lastOp'.sock].peer
         /\ InNoMapNext(lastOp'.sock)
         /\ clientSock' = clientSock
         /\ m_clientRxBuffers' = m_clientRxBuffers
         /\ DOMAIN m_clientBackendSockets' = DOMAIN m_clientBackendSockets]_vars

\* the connect for a pending request has failed, the request was settled
\* once and its client is still open
C28_Witness ==
    /\ lastOp.op = "HandleBackendConnectFail"
    /\ backendSock[lastOp.sock].state = "closed"
    /\ finCalls[backendSock[lastOp.sock].peer] = 1
    /\ sentCalls[backendSock[lastOp.sock].peer] = 1
    /\ clientSock[backendSock[lastOp.sock].owner].state = "open"
    /\ backendSock[lastOp.sock].owner \in DOMAIN m_clientBackendSockets

\* the two directional maps name the same pairs
DirectionalMapsAgree ==
    \A b \in BSockets, c \in Clients :
        (b \in DOMAIN m_backendClientMap /\ m_backendClientMap[b] = c)
            <=> b \in MappedSockets(m_clientBackendSockets, c)

\* backend socket b has an rx buffer, a pending record or a send-time entry
HasBackendState(b) ==
    \/ b \in DOMAIN m_backendRxBuffers
    \/ b \in DOMAIN m_pendingBackendRequests
    \/ \E k \in DOMAIN m_requestSendTimes : k[1] = b

InBothDirectionalMaps(b) ==
    /\ b \in DOMAIN m_backendClientMap
    /\ \E c \in DOMAIN m_clientBackendSockets : b \in MappedSockets(m_clientBackendSockets, c)

\* C29: between callbacks the backend-to-client map holds b -> c exactly when
\* the backend map of c holds b under some address; every backend socket with
\* an rx buffer, a pending record or a send-time entry is in both maps; and a
\* step that takes a backend socket out of the backend-to-client map takes it
\* out of every map.
C29_DirectionalMapsAgree ==
    /\ [](DirectionalMapsAgree
          /\ \A b \in BSockets : HasBackendState(b) => InBothDirectionalMaps(b))
    /\ [][\A b \in DOMAIN m_backendClientMap :
              b \notin DOMAIN m_backendClientMap' => InNoMapNext(b)]_vars

\* a backend socket with a send-time entry sits in both maps while another
\* socket of the same client has been cleaned up
C29_Witness ==
    \E b \in BSockets :
        /\ \E k \in DOMAIN m_requestSendTimes : k[1] = b
        /\ InBothDirectionalMaps(b)
        /\ \E b2 \in OwnedSockets(m_backendClientMap[b]) \ {b} :
               backendSock[b2].state = "closed" /\ ~HasBackendState(b2)

\* C30: a pending record exists only for a backend socket that was created,
\* whose connect has neither succeeded nor failed and that has not been
\* closed or cleaned up; m_pendingBackendRequests is keyed by the socket, so
\* a socket has at most one record; and a step in which the socket connects,
\* fails, errors, closes or is torn down leaves no pending record for it.
C30_PendingOnlyWhileConnecting ==
    /\ [](\A b \in DOMAIN m_pendingBackendRequests :
              /\ b \in BSockets
              /\ backendSock[b].state = "connecting"
              /\ InBothDirectionalMaps(b))
    /\ [][\A b \in DOMAIN m_pendingBackendRequests :
              (\/ backendSock'[b].state # "connecting"
               \/ b \notin DOMAIN m_backendClientMap'
               \/ (lastOp'.sock = b
                   /\ lastOp'.op \in {"HandleBackendConnectSuccess", "HandleBackendConnectFail",
                                      "HandleBackendClose", "HandleBackendError"}))
              => b \notin DOMAIN m_pendingBackendRequests']_vars

\* the connect of a socket has succeeded and its pending record is gone while
\* the connect of another socket is still pending
C30_Witness ==
    /\ lastOp.op = "HandleBackendConnectSuccess"
    /\ backendSock[lastOp.sock].state = "connected"
    /\ lastOp.sock \notin DOMAIN m_pendingBackendRequests
    /\ \E b \in DOMAIN m_pendingBackendRequests : backendSock[b].state = "connecting"

(***************************************************************************)
(* Requests that reuse a backend socket whose connect is still pending     *)
(***************************************************************************)
\* the sequence numbers for which the socket holds a send-time entry while
\* its own pending record is still waiting for the connect
ReusedWhilePending(b) ==
    IF b \in DOMAIN m_pendingBackendRequests
    THEN {q \in Seqs : <<b, q>> \in DOMAIN m_requestSendTimes}
    ELSE {}

\* the request with this sequence number is queued on the socket
QueuedOn(inbox, q) == \E i \in DOMAIN inbox : Deserialize(inbox[i]).seq = q

\* C31: a request routed to a backend socket of its client whose connect is
\* still pending is not lost: it is queued on that socket, or its
\* NotifyRequestSent has been reversed by exactly one NotifyRequestFinished
\* (never by more, whatever happens to the socket next); and when the connect
\* of that socket succeeds the request of the pending record is sent.
C31_ReuseWhilePendingNotLost ==
    /\ [](\A b \in BSockets : \A q \in ReusedWhilePending(b) :
              \/ QueuedOn(backendSock[b].inbox, q)
              \/ reqNotes[<<backendSock[b].owner, q>>].fin = 1)
    /\ [][\A b \in BSockets : \A q \in ReusedWhilePending(b) :
              /\ reqNotes'[<<backendSock[b].owner, q>>].fin <= 1
              /\ (lastOp'.op = "HandleBackendConnectSuccess" /\ lastOp'.sock = b) =>
                     QueuedOn(backendSock'[b].inbox,
                              Deserialize(m_pendingBackendRequests[b].requestPacket).seq)
         ]_vars

\* the backend sockets of the client whose connect is still pending
PendingSocketsOf(c) ==
    {b \in DOMAIN m_pendingBackendRequests : m_pendingBackendRequests[b].clientSocket = c}

\* the step leaves the socket connecting, with its pending record as it was
KeepsPendingNext(b) ==
    /\ b \in DOMAIN m_pendingBackendRequests'
    /\ m_pendingBackendRequests'[b] = m_pendingBackendRequests[b]
    /\ backendSock'[b].state = "connecting"
    /\ b \in DOMAIN m_backendClientMap'

\* C32: the writability callback of a client socket, and the read polls it
\* schedules, leave every backend socket of that client whose connect is
\* still pending connecting and with its pending record: a read poll acts
\* only on a backend socket that is connected and has an rx buffer.
C32_WritableSparesPending ==
    [][/\ (lastOp'.op = "HandleSend" /\ lastOp'.sock \in Clients) =>
              \A b \in PendingSocketsOf(lastOp'.sock) : KeepsPendingNext(b)
       /\ (lastOp'.op = "HandleBackendRead"
           /\ lastOp'.sock \in DOMAIN m_pendingBackendRequests
           /\ lastOp'.sock \in scheduled) =>
              KeepsPendingNext(lastOp'.sock)
    ]_vars

\* the message is as long as its own header says: S + payload_size bytes,
\* computed without wrapping
ExactlyFramed(msg) ==
    /\ Len(msg) >= headerSize
    /\ LET payloadSize == Deserialize(SubSeq(msg, 1, headerSize)).payloadSize
       IN  payloadSize[1] = 0 /\ Len(msg) = headerSize + payloadSize[2]

\* C33: for every header, payload sizes up to 2^32 - 1 included, the
\* reassembly loop terminates and every message it extracts is exactly
\* S + payload_size > 0 bytes long: the 32-bit sum never wraps to a smaller
\* value that extracts a short or empty message.
C33_TotalSizeNeverWraps ==
    /\ ~frameSpins
    /\ \A i \in DOMAIN frameOut : ExactlyFramed(frameOut[i])

\* C34: for every table size T >= 1 and every backend set a rebuild of the
\* Maglev table terminates: it returns with all T slots claimed, or with the
\* table cleared and marked not built.
C34_MaglevBuildTerminates ==
    /\ sel_fault = "none"
    /\ IF m_tableBuilt
       THEN /\ Len(m_lookupTable) = m_tableSize
            /\ \A slot \in DOMAIN m_lookupTable : m_lookupTable[slot] # Null
       ELSE m_lookupTable = <<>>

(***************************************************************************)
(* Least-Request with unequal weights                                      *)
(***************************************************************************)
\* eff_w of the backends of positive weight up to index i, in units of
\* 1/EffScale
CumulativeEffW(backends, bias, i) ==
    SumOver([j \in DOMAIN backends |-> EffectiveWeight(backends[j], bias)],
            {j \in DOMAIN backends : backends[j].weight > 0 /\ j <= i})

\* C35: with unequal weights ChooseBackend never returns a backend of weight
\* 0 and fails only when no backend has positive weight; over the backends
\* of positive weight it returns the first whose cumulative effective weight
\* weight / (active + 1)^bias reaches the draw r in [0, sum eff_w), and when
\* the effective weights sum to nothing it returns the less busy of two
\* backends of positive weight.
C35_WeightedSkipsZeroWeight ==
    [][(sel_last'.op = "ChooseBackend" /\ ~m_weightsAreEqual /\ sel_backends # <<>>) =>
        LET positive == {i \in DOMAIN sel_backends : sel_backends[i].weight > 0}
            cum(i) == CumulativeEffW(sel_backends, m_activeRequestBias, i)
            sum == cum(Len(sel_backends))
            c == sel_last'.chosenIdx
            r == sel_last'.randomPick
        IN  IF positive = {} THEN ~sel_last'.ok
            ELSE /\ sel_last'.ok
                 /\ c \in positive
                 /\ sel_last'.address = sel_backends[c].address
                 /\ IF sum = 0
                    THEN /\ sel_last'.idx1 \in positive
                         /\ sel_last'.idx2 \in positive
                         /\ c \in {sel_last'.idx1, sel_last'.idx2}
                         /\ sel_backends[c].activeRequests
                               <= sel_backends[sel_last'.idx1].activeRequests
                         /\ sel_backends[c].activeRequests
                               <= sel_backends[sel_last'.idx2].activeRequests
                    ELSE /\ r >= 0 /\ r < sum
                         /\ cum(c) >= r
                         /\ \A j \in positive : j < c => cum(j) < r]_vars

\* two backends of unequal positive weight, the first one busy: the draw
\* passed the effective weight of the first and the second was returned
C35_Witness ==
    /\ sel_last.op = "ChooseBackend"
    /\ ~m_weightsAreEqual
    /\ m_activeRequestBias = 1
    /\ Len(sel_backends) = 2
    /\ \A i \in DOMAIN sel_backends : sel_backends[i].weight > 0
    /\ sel_backends[1].activeRequests > 0
    /\ sel_last.chosenIdx = 2
    /\ sel_last.randomPick > EffectiveWeight(sel_backends[1], m_activeRequestBias)

\* a backend of weight 0 stands first and the other one was returned
LrZeroWeightSkipped ==
    /\ sel_last.op = "ChooseBackend"
    /\ ~m_weightsAreEqual
    /\ sel_backends[1].weight = 0
    /\ sel_last.chosenIdx = 2

\* the effective weights summed to nothing and the less busy of two backends
\* of positive weight was returned
LrFallbackTaken ==
    /\ sel_last.op = "ChooseBackend"
    /\ ~m_weightsAreEqual
    /\ m_activeRequestBias = HugeBias
    /\ sel_last.idx1 # sel_last.idx2
    /\ sel_last.idx1 # 0
    /\ sel_backends[sel_last.idx1].activeRequests
          > sel_backends[sel_last.idx2].activeRequests
    /\ sel_last.chosenIdx = sel_last.idx2

(***************************************************************************)
(* The in-flight counters of the two selectors inside the application      *)
(***************************************************************************)
\* whether the selector in use keeps an in-flight counter for the address
HasCounter(backends, metrics, a) ==
    IF algo = "LeastRequest" THEN FindBackendInfo(backends, a) # 0
    ELSE a \in DOMAIN metrics

\* C36: no in-flight counter is ever below 0; in a handler that only
\* finishes requests of an address, the counter of that address goes down by
\* the number of NotifyRequestFinished calls but not below 0 (a call made at
\* 0 leaves it at 0), and calls for an address that has no counter create
\* none and change no other counter.
C36_CountersFloorAtZero ==
    /\ [](/\ \A i \in DOMAIN m_backends : m_backends[i].activeRequests >= 0
          /\ \A a \in DOMAIN m_backendMetrics : m_backendMetrics[a].pending >= 0)
    /\ [][\A a \in Addrs :
              (sentCalls'[a] = sentCalls[a] /\ lastOp'.op \notin {"SetBackends", "AddBackend"}) =>
                  IF HasCounter(m_backends, m_backendMetrics, a)
                  THEN /\ HasCounter(m_backends', m_backendMetrics', a)
                       /\ InFlightCount(m_backends', m_backendMetrics', a) =
                              Max(0, InFlightCount(m_backends, m_backendMetrics, a)
                                         - (finCalls'[a] - finCalls[a]))
                  ELSE ~HasCounter(m_backends', m_backendMetrics', a)]_vars

\* five handlers have run, the backends were configured once, and the last
\* handler called NotifyRequestFinished for an address more often than
\* NotifyRequestSent was ever called for it: the counter is at 0
FloorReached(a) ==
    /\ events = 5
    /\ lastOp.op = "HandleBackendConnectSuccess"
    /\ HasCounter(m_backends, m_backendMetrics, a)
    /\ sentCalls[a] > 0
    /\ finCalls[a] > sentCalls[a]
    /\ InFlightCount(m_backends, m_backendMetrics, a) = 0

C36_Witness == algo = "LeastRequest" /\ \E a \in Addrs : FloorReached(a)

\* the same with the Peak-EWMA selector
EwmaFloorReached == algo = "PeakEWMA" /\ \E a \in Addrs : FloorReached(a)

\* a request is finished for an address that has no counter any more
FinishedWithoutCounter ==
    \E a \in Addrs : /\ ~HasCounter(m_backends, m_backendMetrics, a)
                     /\ finCalls[a] > 0
                     /\ lastOp.op \notin {"SetBackends", "AddBackend"}
                     /\ finCalls[a] >= sentCalls[a]

(***************************************************************************)
(* The contents of the ring                                                *)
(***************************************************************************)
\* the integer nearest to num / den, halves rounded up
Rounded(num, den) ==
    CHOOSE n \in 0..num : 2 * den * n <= 2 * num + den /\ 2 * num + den < 2 * den * (n + 1)

\* the hashes of the virtual nodes 0..h-1 of an address
VirtualNodeHashes(address, h) ==
    {Hasher(VirtualNodeKey(address, j), sel_hasher) : j \in 0..(h - 1)}

\* C37: the ring holds exactly the keys of max(1, round(target * w / W))
\* virtual nodes of every backend of weight w > 0, where
\* target = clamp(P * base_hashes_per_host, min_ring, max_ring); every entry
\* maps to a current backend of positive weight that has a virtual node at
\* that key; and the ring is empty only when no backend has positive weight.
C37_RingContents ==
    LET positive == {i \in DOMAIN sel_backends : sel_backends[i].weight > 0}
        P == Cardinality(positive)
        W == SumOver([i \in DOMAIN sel_backends |-> sel_backends[i].weight], positive)
        wanted == Max(m_minRingSize, P * DefaultHashesPerHost)
        target == IF m_maxRingSize < wanted THEN m_maxRingSize ELSE wanted
        h(i) == Max(1, Rounded(target * sel_backends[i].weight, W))
        keys(i) == VirtualNodeHashes(sel_backends[i].address, h(i))
    IN  /\ DOMAIN m_ring = UNION {keys(i) : i \in positive}
        /\ \A key \in DOMAIN m_ring :
               \E i \in positive : m_ring[key] = sel_backends[i].address /\ key \in keys(i)
        /\ (m_ring = EmptyMap) <=> (positive = {})

\* a backend of weight 0 beside two of unequal positive weight, the lighter
\* of which keeps its one virtual node only by the minimum
C37_Witness ==
    /\ Len(sel_backends) = 3
    /\ \E z, i, j \in DOMAIN sel_backends :
          /\ sel_backends[z].weight = 0
          /\ sel_backends[i].weight = 1
          /\ sel_backends[j].weight = 2
    /\ m_maxRingSize = 1
    /\ Cardinality(DOMAIN m_ring) = 2
    /\ sel_last.op \in {"SetBackends", "AddBackend"}

(***************************************************************************)
(* The state of the weighted round robin                                   *)
(***************************************************************************)
PositiveWeightSet(backends) ==
    {backends[i].weight : i \in {j \in DOMAIN backends : backends[j].weight > 0}}

\* the largest element of a set of positive numbers, 0 for the empty set
Largest(S) == IF S = {} THEN 0 ELSE CHOOSE x \in S : \A y \in S : y <= x

\* the largest number that divides every element, 0 for the empty set
CommonDivisor(S) ==
    Largest({d \in 1..Largest(S) : \A w \in S : w % d = 0})

\* ChooseBackend returned with 0 <= i < n and 0 < cw <= max_w
WrrChooseLeavesMarker ==
    /\ sel_last'.ok
    /\ 0 <= m_currentIndex' /\ m_currentIndex' < Len(sel_backends)
    /\ 0 < m_currentWeight' /\ m_currentWeight' <= m_maxWeight

\* max_w and gcd_w are those of the positive weights, i = n - 1 (0 for the
\* empty list, which has no position) and cw = 0
WrrStateReset ==
    /\ m_maxWeight' = Largest(PositiveWeightSet(sel_backends'))
    /\ m_gcdWeight' = CommonDivisor(PositiveWeightSet(sel_backends'))
    /\ m_currentIndex' = IF sel_backends' = <<>> THEN 0 ELSE Len(sel_backends') - 1
    /\ m_currentWeight' = 0

\* C38: whenever some backend has positive weight ChooseBackend returns and
\* leaves 0 <= i < n and 0 < cw <= max_w; every SetBackends and AddBackend
\* recomputes max_w and gcd_w over the positive weights and resets i = n - 1
\* and cw = 0.
C38_WrrStateInRange ==
    [][/\ (sel_last'.op = "ChooseBackend" /\ PositiveWeightSet(sel_backends) # {})
              => WrrChooseLeavesMarker
       /\ sel_last'.op \in {"SetBackends", "AddBackend"} => WrrStateReset]_vars

\* C38 for weights below 2^31
C38_WrrStateInRangeSmallWeights ==
    [][sel_unit = 1 =>
          /\ (sel_last'.op = "ChooseBackend" /\ PositiveWeightSet(sel_backends) # {})
                 => WrrChooseLeavesMarker
          /\ sel_last'.op \in {"SetBackends", "AddBackend"} => WrrStateReset]_vars

\* the rebuilds alone, whatever the weights
WrrRebuildResets ==
    [][sel_last'.op \in {"SetBackends", "AddBackend"} => WrrStateReset]_vars

(***************************************************************************)
(* Latency spikes                                                          *)
(***************************************************************************)
\* the step observed this RTT on the metric of the address, and the RTT was
\* above the positive cost the metric held
SpikeObserved(a, rtt) ==
    /\ sel_last'.op = "RecordBackendLatency"
    /\ sel_last'.address = a
    /\ a \in DOMAIN sel_metrics
    /\ rtt > sel_metrics[a].m_costNs
    /\ sel_metrics[a].m_costNs > 0
    /\ sel_metrics'[a] = Observe(sel_metrics[a], rtt, sel_now)

\* C39: an observation of an RTT above the current positive cost never
\* leaves the cost lower than it was, and never makes the load of the
\* backend smaller than it would have been without the observation.
C39_SpikeNeverLowersCost ==
    [][\A a \in SelAddrs, rtt \in RttsNs :
          SpikeObserved(a, rtt) =>
              /\ sel_metrics'[a].m_costNs >= sel_metrics[a].m_costNs
              /\ GetLoad(sel_metrics'[a], sel_now) >= GetLoad(sel_metrics[a], sel_now)]_vars

(***************************************************************************)
(* Replacement of a stale backend socket                                   *)
(***************************************************************************)
\* the client's backend map caches an errored socket for the address
StaleCached(c, a) ==
    /\ c \in DOMAIN m_clientBackendSockets
    /\ a \in DOMAIN m_clientBackendSockets[c]
    /\ backendSock[m_clientBackendSockets[c][a]].errno # NOTERROR

\* the step is a read of the client that forwarded requests to the address only
SelectedOnly(c, a) ==
    /\ lastOp'.op = "HandleClientRead"
    /\ lastOp'.sock = c
    /\ sentCalls'[a] > sentCalls[a]
    /\ \A a2 \in Addrs \ {a} : sentCalls'[a2] = sentCalls[a2]

\* the entries of the client's map other than the one of the address are kept
OtherEntriesKept(c, a) ==
    c \in DOMAIN m_clientBackendSockets' =>
        \A a2 \in DOMAIN m_clientBackendSockets[c] \ {a} :
            /\ a2 \in DOMAIN m_clientBackendSockets'[c]
            /\ m_clientBackendSockets'[c][a2] = m_clientBackendSockets[c][a2]

\* the stale socket is gone from the maps of the application
StaleEntryRemoved(c, b) ==
    /\ b \notin DOMAIN m_backendClientMap'
    /\ c \in DOMAIN m_clientBackendSockets' =>
           \A a2 \in DOMAIN m_clientBackendSockets'[c] : m_clientBackendSockets'[c][a2] # b

\* C40: when a request selects an address whose cached backend socket is
\* errored, the entry of the stale socket is removed once: the read of the
\* client does not go through the map position the cleanup has removed (the
\* process keeps running), the stale socket leaves the maps, and no other
\* entry of the client's map is removed.
C40_StaleEntryRemovedOnce ==
    [][\A c \in Clients, a \in Addrs :
          StaleCached(c, a) =>
              /\ (lastOp'.op = "HandleClientRead" /\ lastOp'.sock = c) => ~crashed'
              /\ SelectedOnly(c, a) =>
                     /\ StaleEntryRemoved(c, m_clientBackendSockets[c][a])
                     /\ OtherEntriesKept(c, a)]_vars

\* the stale socket leaves the maps and the other entries stay whenever the
\* process survives the replacement
StaleReplacementKeepsOthers ==
    [][\A c \in Clients, a \in Addrs :
          (StaleCached(c, a) /\ SelectedOnly(c, a)) =>
              /\ StaleEntryRemoved(c, m_clientBackendSockets[c][a])
              /\ OtherEntriesKept(c, a)]_vars

====
